---- MODULE Spec2Model ----
(***************************************************************************)
(* A model of the combat core of cxnub/COMT-Project-1b: the combatants of  *)
(* characters.py and enemies.py, the skills and effects of skills.py and   *)
(* the GameManager of game_manager.py.                                     *)
(*                                                                         *)
(* Two specifications share the operators that model the code:             *)
(*   Spec      one GameManager session: __init__, then start_combat's      *)
(*             loop of run_battle_logic rounds until is_game_over;         *)
(*   UnitSpec  single calls of the methods on combatants whose stats are   *)
(*             drawn from bounded sets (at most two calls in a row).       *)
(*                                                                         *)
(* A combatant is a record whose fields are the attributes of the Python   *)
(* object.  An EnemyCharacter has no magic_points, skills or               *)
(* active_effects field: enemies.py deletes them.  Log lines are modelled  *)
(* by a tag that names the f-string that builds them; the clock prefix     *)
(* and the randomly chosen flavour text are left out.                      *)
(***************************************************************************)
EXTENDS Integers, Sequences, FiniteSets, TLC

VARIABLES
    player_characters,        \* GameManager.player_characters: a sequence of combatants
    enemies,                  \* GameManager.enemies: a sequence of combatants
    active_player_character,  \* index into player_characters
    active_enemy_character,   \* index into enemies
    turn_character,           \* GameManager.turn_character: [side, index] of the combatant it references
    battle_log,               \* GameManager.battle_log: deque(maxlen=5) of log tags
    pc,                       \* position of the running code
    ret,                      \* value returned by the last call that returned to the caller
    call,                     \* the call being made: its name and arguments
    round                     \* rounds of run_battle_logic started in this session

vars == <<player_characters, enemies, active_player_character,
          active_enemy_character, turn_character, battle_log, pc, ret, call, round>>

----------------------------------------------------------------------------
(* Bounds of the model.                                                    *)

\* rounds of one session explored by Spec
MaxRounds == 4
\* largest attack / defense value drawn for a combatant by UnitSpec
MaxStat == 2
\* largest speed_points / magic_points value drawn for a caster by UnitSpec
MaxPoints == 7

----------------------------------------------------------------------------
(* Program constants.                                                      *)

BattleLogMaxLen == 5
CritRollMin == 1
CritRollMax == 100
HealRollMin == 1
HealRollMax == 10
EffectUseCount == 1
LuckIncrease == 5
WhiskerGuardMin == 5
WhiskerGuardMax == 15
ClawSwipeMin == 25
ClawSwipeMax == 35
HealingPurrMin == 5
HealingPurrMax == 15
PurrfectStrikeMin == 15
PurrfectStrikeMax == 25
CripplingStrikeMin == 5
CripplingStrikeMax == 15

----------------------------------------------------------------------------
(* The catalogs.  The csv files they are read from are not part of the     *)
(* sources, so the numbers are stand-ins chosen to make combats short.     *)

job_class_attributes ==
    [ Tank       |-> [HP |-> 30, DP |-> 8, AP |-> 10, SP |-> 3, MP |-> 5, Luck |-> 0],
      MirrorMage |-> [HP |-> 20, DP |-> 3, AP |-> 25, SP |-> 4, MP |-> 5, Luck |-> 0],
      Healer     |-> [HP |-> 15, DP |-> 2, AP |-> 8,  SP |-> 2, MP |-> 5, Luck |-> 100],
      Assassin   |-> [HP |-> 12, DP |-> 5, AP |-> 14, SP |-> 5, MP |-> 5, Luck |-> 50] ]

enemy_attributes ==
    [ Viperstrike |-> [HP |-> 20, DP |-> 4, AP |-> 12, SP |-> 3, Luck |-> 50],
      Doomshroud  |-> [HP |-> 30, DP |-> 6, AP |-> 15, SP |-> 4, Luck |-> 0] ]

skill_attributes ==
    [ WhiskerGuard     |-> [mp_cost |-> 2, sp_cost |-> 1, require_target |-> FALSE],
      ClawSwipe        |-> [mp_cost |-> 3, sp_cost |-> 2, require_target |-> TRUE],
      IllusionaryAura  |-> [mp_cost |-> 3, sp_cost |-> 2, require_target |-> FALSE],
      ReflectiveShield |-> [mp_cost |-> 3, sp_cost |-> 2, require_target |-> FALSE],
      HealingPurr      |-> [mp_cost |-> 2, sp_cost |-> 3, require_target |-> FALSE],
      LuckyCharm       |-> [mp_cost |-> 6, sp_cost |-> 1, require_target |-> FALSE],
      PurrfectStrike   |-> [mp_cost |-> 4, sp_cost |-> 2, require_target |-> TRUE],
      CripplingStrike  |-> [mp_cost |-> 2, sp_cost |-> 6, require_target |-> TRUE] ]

\* the skills each job class's constructor binds
JobSkills ==
    [ Tank       |-> <<"WhiskerGuard", "ClawSwipe">>,
      MirrorMage |-> <<"IllusionaryAura", "ReflectiveShield">>,
      Healer     |-> <<"HealingPurr", "LuckyCharm">>,
      Assassin   |-> <<"PurrfectStrike", "CripplingStrike">> ]

JobClasses == {"Tank", "MirrorMage", "Healer", "Assassin"}
EnemyNames == {"Viperstrike", "Doomshroud"}

----------------------------------------------------------------------------
(* Combatants (characters.py, enemies.py).                                 *)

\* BaseCharacter._assign_job_class_attributes
_assign_job_class_attributes(self, job_class_name) ==
    LET attr == job_class_attributes[job_class_name] IN
    [self EXCEPT !.job_class = job_class_name,
                 !.max_health_points = attr.HP,
                 !.max_defense_points = attr.DP,
                 !.attack_points = attr.AP,
                 !.speed_points = attr.SP,
                 !.magic_points = attr.MP,
                 !.luck = attr.Luck,
                 !.health_points = attr.HP,
                 !.defense_points = attr.DP]

\* Tank(name), MirrorMage(name), Healer(name), Assassin(name): BaseCharacter.__init__
\* with the job class, then the skills of the class
PlayerCharacter(job_class) ==
    LET blank == [name |-> job_class, cls |-> job_class, job_class |-> "",
                  health_points |-> 0, attack_points |-> 0, defense_points |-> 0,
                  speed_points |-> 0, magic_points |-> 0, luck |-> 0,
                  max_health_points |-> 0, max_defense_points |-> 0,
                  skills |-> <<>>, active_effects |-> <<>>]
    IN [_assign_job_class_attributes(blank, job_class) EXCEPT !.skills = JobSkills[job_class]]

\* EnemyCharacter.__init__ without the three del statements: the attributes
\* BaseCharacter.__init__ set are kept
EnemyCharacter_keeps_attributes(name) ==
    LET attr == enemy_attributes[name] IN
    [name |-> name, cls |-> "EnemyCharacter", job_class |-> "",
     max_health_points |-> attr.HP, max_defense_points |-> attr.DP,
     attack_points |-> attr.AP, speed_points |-> attr.SP, luck |-> attr.Luck,
     health_points |-> attr.HP, defense_points |-> attr.DP,
     magic_points |-> 0, skills |-> <<>>, active_effects |-> <<>>]

\* EnemyCharacter.__init__: no magic_points, skills or active_effects attribute
EnemyCharacter(name) ==
    LET attr == enemy_attributes[name] IN
    [name |-> name, cls |-> "EnemyCharacter", job_class |-> "",
     max_health_points |-> attr.HP, max_defense_points |-> attr.DP,
     attack_points |-> attr.AP, speed_points |-> attr.SP, luck |-> attr.Luck,
     health_points |-> attr.HP, defense_points |-> attr.DP]

\* isinstance(character, EnemyCharacter)
IsEnemyCharacter(character) == character.cls = "EnemyCharacter"

\* restore_stats with speed_points, magic_points and luck left as they are
restore_stats_keeps_points(self) ==
    [_assign_job_class_attributes(self, self.job_class) EXCEPT
        !.speed_points = self.speed_points,
        !.magic_points = self.magic_points,
        !.luck = self.luck]

\* BaseCharacter.restore_stats
restore_stats(self) == _assign_job_class_attributes(self, self.job_class)

\* BaseCharacter.is_alive
is_alive(self) == self.health_points > 0

\* SkillEffects.Invincible(), SkillEffects.ReflectiveShield()
NewEffect(kind) == [kind |-> kind, use_count |-> EffectUseCount]

\* BaseCharacter.get_active_effect: the position of the first effect of the kind,
\* 0 for None
get_active_effect(self, effect) ==
    IF "active_effects" \in DOMAIN self
    THEN LET hits == {i \in 1..Len(self.active_effects) : self.active_effects[i].kind = effect}
         IN IF hits = {} THEN 0 ELSE CHOOSE i \in hits : \A j \in hits : i <= j
    ELSE 0

\* list.remove of the effect found at position i
RemoveAt(s, i) == SubSeq(s, 1, i - 1) \o SubSeq(s, i + 1, Len(s))

\* take_effect with the whole damage taken from health_points
take_effect_undefended(attacker, damage) ==
    LET defense_points_damage == IF damage < attacker.defense_points
                                 THEN damage ELSE attacker.defense_points
    IN [attacker EXCEPT !.defense_points = @ - defense_points_damage,
                        !.health_points = @ - damage]

\* SkillEffects.ReflectiveShield.take_effect: the attacker after the reflection
take_effect(attacker, damage) ==
    LET defense_points_damage == IF damage < attacker.defense_points
                                 THEN damage ELSE attacker.defense_points
        health_points_damage == IF damage - attacker.defense_points > 0
                                THEN damage - attacker.defense_points ELSE 0
    IN [attacker EXCEPT !.defense_points = @ - defense_points_damage,
                        !.health_points = @ - health_points_damage]

\* the critical-hit test with a strict comparison
critical_hit_below(self, roll) == roll < self.luck

\* the critical-hit test of basic_attack: random.randint(1, 100) <= self.luck
critical_hit(self, roll) == roll <= self.luck

\* the damage without the floor max(..., 0)
total_damage_unfloored(self, target, roll) ==
    IF critical_hit(self, roll)
    THEN 2 * self.attack_points
    ELSE self.attack_points - target.defense_points

\* the damage of the damage branch of basic_attack
total_damage(self, target, roll) ==
    IF critical_hit(self, roll)
    THEN 2 * self.attack_points
    ELSE IF self.attack_points - target.defense_points > 0
         THEN self.attack_points - target.defense_points ELSE 0

\* the rejection branch removing every Invincible effect the target holds
rejected_attack_removes_all(self, target, inv) ==
    [self |-> self,
     target |-> [target EXCEPT !.active_effects =
                    SelectSeq(@, LAMBDA effect : effect.kind /= "Invincible")],
     log |-> "rejected"]

\* the Invincible branch with the effect left in place
rejected_attack_keeps_effect(self, target, inv) ==
    [self |-> self, target |-> target, log |-> "rejected"]

\* basic_attack, lines 171-184: the target holds an Invincible effect at position inv
rejected_attack(self, target, inv) ==
    LET use_count == target.active_effects[inv].use_count - 1 IN
    [self |-> self,
     target |-> [target EXCEPT !.active_effects =
                    IF use_count <= 0 THEN RemoveAt(@, inv)
                    ELSE [@ EXCEPT ![inv].use_count = use_count]],
     log |-> "rejected"]

\* basic_attack, lines 187-197: the target holds a ReflectiveShield effect at
\* position refl
reflected_attack(self, target, refl) ==
    LET use_count == target.active_effects[refl].use_count - 1 IN
    [self |-> take_effect(self, self.attack_points),
     target |-> [target EXCEPT !.active_effects =
                    IF use_count = 0 THEN RemoveAt(@, refl)
                    ELSE [@ EXCEPT ![refl].use_count = use_count]],
     log |-> "reflected"]

\* the damage branch with the damage dealt to the attacker as well
damaging_attack_recoils(self, target, roll) ==
    LET damage == total_damage(self, target, roll) IN
    [self |-> [self EXCEPT !.health_points = @ - damage],
     target |-> [target EXCEPT !.health_points = @ - damage,
                               !.defense_points = @ - 1],
     log |-> IF critical_hit(self, roll) THEN "critical"
             ELSE IF damage = 0 THEN "blocked" ELSE "attacked"]

\* basic_attack, lines 199-225: the damage branch
damaging_attack(self, target, roll) ==
    LET damage == total_damage(self, target, roll) IN
    [self |-> self,
     target |-> [target EXCEPT !.health_points = @ - damage,
                               !.defense_points = @ - 1],
     log |-> IF critical_hit(self, roll) THEN "critical"
             ELSE IF damage = 0 THEN "blocked" ELSE "attacked"]

\* basic_attack with the ReflectiveShield test made before the Invincible test
basic_attack_reflects_first(self, target, roll) ==
    LET attacker == [self EXCEPT !.speed_points = @ - 1]
        inv == get_active_effect(target, "Invincible")
        refl == get_active_effect(target, "ReflectiveShield")
    IN
    IF refl /= 0 THEN reflected_attack(attacker, target, refl)
    ELSE IF inv /= 0 THEN rejected_attack(attacker, target, inv)
    ELSE damaging_attack(attacker, target, roll)

\* BaseCharacter.basic_attack: the attacker, the target and the log afterwards;
\* roll is the value random.randint(1, 100) yields if the damage branch is reached
basic_attack(self, target, roll) ==
    LET attacker == [self EXCEPT !.speed_points = @ - 1]
        inv == get_active_effect(target, "Invincible")
        refl == get_active_effect(target, "ReflectiveShield")
    IN
    IF inv /= 0 THEN rejected_attack(attacker, target, inv)
    ELSE IF refl /= 0 THEN reflected_attack(attacker, target, refl)
    ELSE damaging_attack(attacker, target, roll)

\* heal with the health points capped at max_health_points
heal_capped(self, hp_increase) ==
    [self |-> [self EXCEPT !.speed_points = @ - 1,
                           !.health_points =
                               IF @ + hp_increase > self.max_health_points
                               THEN self.max_health_points ELSE @ + hp_increase],
     log |-> "healed"]

\* BaseCharacter.heal; hp_increase is the value random.randint(1, 10) yields
heal(self, hp_increase) ==
    [self |-> [self EXCEPT !.speed_points = @ - 1,
                           !.health_points = @ + hp_increase],
     log |-> "healed"]

\* check_skill_cost without the test of the speed points
check_skill_cost_magic_only(self, skill) ==
    IF self.magic_points < skill_attributes[skill].mp_cost THEN "no_magic"
    ELSE ""

\* check_skill_cost with the magic points tested before the speed points
check_skill_cost_magic_first(self, skill) ==
    IF self.magic_points < skill_attributes[skill].mp_cost THEN "no_magic"
    ELSE IF self.speed_points < skill_attributes[skill].sp_cost THEN "no_speed"
    ELSE ""

\* BaseCharacter.check_skill_cost: "" when the skill can be paid, else the reason
check_skill_cost(self, skill) ==
    IF self.speed_points < skill_attributes[skill].sp_cost THEN "no_speed"
    ELSE IF self.magic_points < skill_attributes[skill].mp_cost THEN "no_magic"
    ELSE ""

\* ClawSwipe.use dealing the whole roll to the target's health
ClawSwipe_use_undefended(character, target, damage_dealt) ==
    [character |-> character,
     target |-> [target EXCEPT !.health_points = @ - damage_dealt,
                               !.defense_points = 0]]

\* Skills.ClawSwipe.use; damage_dealt is the value random.randint(25, 35) yields
ClawSwipe_use(character, target, damage_dealt) ==
    [character |-> character,
     target |-> [target EXCEPT
                   !.health_points = IF damage_dealt > target.defense_points
                                     THEN @ - (damage_dealt - target.defense_points)
                                     ELSE @,
                   !.defense_points = 0]]

\* CripplingStrike.use with the operands of the subtraction exchanged
CripplingStrike_use_exchanged(character, target, speed_reduction) ==
    [character |-> character,
     target |-> [target EXCEPT
                   !.speed_points = IF speed_reduction - @ > 0
                                    THEN speed_reduction - @ ELSE 0]]

\* CripplingStrike.use without the floor at 0
CripplingStrike_use_unfloored(character, target, speed_reduction) ==
    [character |-> character,
     target |-> [target EXCEPT !.speed_points = @ - speed_reduction]]

\* Skills.CripplingStrike.use; speed_reduction is the value random.randint(5, 15)
\* yields
CripplingStrike_use(character, target, speed_reduction) ==
    [character |-> character,
     target |-> [target EXCEPT
                   !.speed_points = IF @ - speed_reduction > 0
                                    THEN @ - speed_reduction ELSE 0]]

\* Skills.<skill>.use(character, target): roll is the value random.randint yields
skill_use(skill, character, target, roll) ==
    CASE skill = "WhiskerGuard" ->
           [character |-> [character EXCEPT !.defense_points = @ + roll],
            target |-> target]
      [] skill = "ClawSwipe" -> ClawSwipe_use(character, target, roll)
      [] skill = "IllusionaryAura" ->
           [character |-> [character EXCEPT
                             !.active_effects = Append(@, NewEffect("Invincible"))],
            target |-> target]
      [] skill = "ReflectiveShield" ->
           [character |-> [character EXCEPT
                             !.active_effects = Append(@, NewEffect("ReflectiveShield"))],
            target |-> target]
      [] skill = "HealingPurr" ->
           [character |-> [character EXCEPT !.health_points = @ + roll],
            target |-> target]
      [] skill = "LuckyCharm" ->
           [character |-> [character EXCEPT !.luck = @ + LuckIncrease],
            target |-> target]
      [] skill = "PurrfectStrike" ->
           [character |-> character,
            target |-> [target EXCEPT !.defense_points = 0,
                                      !.health_points = @ - roll]]
      [] skill = "CripplingStrike" -> CripplingStrike_use(character, target, roll)

\* the values random.randint can yield in the skill's use
SkillRollMin(skill) ==
    CASE skill = "WhiskerGuard" -> WhiskerGuardMin
      [] skill = "ClawSwipe" -> ClawSwipeMin
      [] skill = "HealingPurr" -> HealingPurrMin
      [] skill = "PurrfectStrike" -> PurrfectStrikeMin
      [] skill = "CripplingStrike" -> CripplingStrikeMin
      [] OTHER -> 0

SkillRollMax(skill) ==
    CASE skill = "WhiskerGuard" -> WhiskerGuardMax
      [] skill = "ClawSwipe" -> ClawSwipeMax
      [] skill = "HealingPurr" -> HealingPurrMax
      [] skill = "PurrfectStrike" -> PurrfectStrikeMax
      [] skill = "CripplingStrike" -> CripplingStrikeMax
      [] OTHER -> 0

\* the shapes of value a method hands back
\* (index is the roster position of a returned combatant, 0 otherwise)
StrValue(log) == [type |-> "str", val |-> log, index |-> 0]
TupleValue(log) == [type |-> "tuple", val |-> log, index |-> 0]
BoolValue(b) == [type |-> "bool", val |-> IF b THEN "True" ELSE "False", index |-> 0]
RefValue(ref) == [type |-> "ref", val |-> ref.side, index |-> ref.index]
NoneValue == [type |-> "None", val |-> "None", index |-> 0]
RaisedValue(what) == [type |-> "raise", val |-> what, index |-> 0]

\* self.skills[skill_index] of Python: 0-based, negative indices count from the end;
\* 0 when the list has no such position
SkillPosition(self, skill_index) ==
    IF skill_index >= 0 THEN skill_index + 1
    ELSE IF Len(self.skills) + skill_index >= 0 THEN Len(self.skills) + skill_index + 1
    ELSE 0

\* BaseCharacter.use_skill: the caster, the target and the returned value afterwards;
\* has_target is FALSE when the target argument is None
use_skill(self, skill_index, has_target, target, roll) ==
    IF skill_index >= Len(self.skills)
    THEN [self |-> self, target |-> target, ret |-> NoneValue]
    ELSE IF SkillPosition(self, skill_index) = 0
    THEN [self |-> self, target |-> target, ret |-> RaisedValue("IndexError")]
    ELSE
    LET skill == self.skills[SkillPosition(self, skill_index)]
        reason == check_skill_cost(self, skill)
        paid == [self EXCEPT !.speed_points = @ - skill_attributes[skill].sp_cost,
                             !.magic_points = @ - skill_attributes[skill].mp_cost]
        used == skill_use(skill, paid, target, roll)
    IN
    IF reason /= ""
    THEN [self |-> self, target |-> target, ret |-> TupleValue(reason)]
    ELSE IF has_target
    THEN [self |-> used.character, target |-> used.target, ret |-> StrValue(skill)]
    ELSE IF skill_attributes[skill].require_target
    THEN [self |-> paid, target |-> target, ret |-> NoneValue]
    ELSE IF skill = "ReflectiveShield"
    THEN \* skills.py line 445 reads target.name after the effect is appended
         [self |-> used.character, target |-> target, ret |-> RaisedValue("AttributeError")]
    ELSE [self |-> used.character, target |-> target, ret |-> StrValue(skill)]

\* defend paying a speed point as basic_attack and heal do
defend_costs_speed(self) ==
    [self |-> [self EXCEPT !.defense_points = self.max_defense_points,
                           !.speed_points = @ - 1],
     log |-> "defended"]

\* EnemyCharacter.defend
defend(self) ==
    [self |-> [self EXCEPT !.defense_points = self.max_defense_points],
     log |-> "defended"]

\* select_action with the health test made before the lethal-attack test
select_action_heals_first(self, active_player) ==
    IF 10 * self.health_points < 2 * self.max_health_points
    THEN "heal"
    ELSE IF active_player.health_points + active_player.defense_points < self.attack_points
    THEN "basic_attack"
    ELSE IF 10 * self.defense_points < 5 * self.max_defense_points
    THEN "defend"
    ELSE "basic_attack"

\* EnemyCharacter.select_action: the method it returns, bound to active_player
\* (0.2 * max and 0.5 * max are compared in tenths)
select_action(self, active_player) ==
    IF active_player.health_points + active_player.defense_points < self.attack_points
    THEN "basic_attack"
    ELSE IF 10 * self.health_points < 2 * self.max_health_points
    THEN "heal"
    ELSE IF 10 * self.defense_points < 5 * self.max_defense_points
    THEN "defend"
    ELSE "basic_attack"

----------------------------------------------------------------------------
(* GameManager (game_manager.py).  gm is the record of the object's        *)
(* attributes; the methods that change them return the record afterwards.  *)

GameManagerObject ==
    [player_characters |-> player_characters,
     enemies |-> enemies,
     active_player_character |-> active_player_character,
     active_enemy_character |-> active_enemy_character,
     turn_character |-> turn_character,
     battle_log |-> battle_log]

PlayerRef(i) == [side |-> "player", index |-> i]
EnemyRef(i) == [side |-> "enemy", index |-> i]

\* the combatant a reference names
Deref(gm, ref) ==
    IF ref.side = "player" THEN gm.player_characters[ref.index]
    ELSE gm.enemies[ref.index]

\* sorted(active_characters, key, reverse=True)[0] on a two-element list: the
\* element with the larger key, the first listed when the keys are equal
\* (sorted is stable, also under reverse=True); a key is <<speed_points, random>>
KeyLess(k1, k2) == k1[1] < k2[1] \/ (k1[1] = k2[1] /\ k1[2] < k2[2])

SortedFirst(first, second, key_first, key_second) ==
    IF KeyLess(key_first, key_second) THEN second ELSE first

\* determine_turn_order sorting without reverse=True
determine_turn_order_ascending(gm, random_enemy, random_player) ==
    SortedFirst(PlayerRef(gm.active_player_character),
                EnemyRef(gm.active_enemy_character),
                <<gm.enemies[gm.active_enemy_character].speed_points, random_enemy>>,
                <<gm.player_characters[gm.active_player_character].speed_points,
                  random_player>>)

\* GameManager.determine_turn_order; random_enemy and random_player are the values
\* random.random() yields for the two keys
determine_turn_order(gm, random_enemy, random_player) ==
    SortedFirst(EnemyRef(gm.active_enemy_character),
                PlayerRef(gm.active_player_character),
                <<gm.enemies[gm.active_enemy_character].speed_points, random_enemy>>,
                <<gm.player_characters[gm.active_player_character].speed_points,
                  random_player>>)

\* any(character.is_alive() for character in roster)
AnyAlive(roster) == \E i \in 1..Len(roster) : is_alive(roster[i])

\* is_game_over with "and" for "or"
is_game_over_both(gm) == ~AnyAlive(gm.player_characters) /\ ~AnyAlive(gm.enemies)

\* GameManager.is_game_over
is_game_over(gm) == ~AnyAlive(gm.player_characters) \/ ~AnyAlive(gm.enemies)

\* player_won with all() for any() on the player roster
player_won_unscathed(gm) ==
    IF ~is_game_over(gm) THEN FALSE
    ELSE (\A i \in 1..Len(gm.player_characters) : is_alive(gm.player_characters[i]))
         /\ ~AnyAlive(gm.enemies)

\* GameManager.player_won
player_won(gm) ==
    IF ~is_game_over(gm) THEN FALSE
    ELSE AnyAlive(gm.player_characters) /\ ~AnyAlive(gm.enemies)

\* an append that, on a full log, drops the newest entry instead of the oldest
LogAppend_drops_newest(log, entry) ==
    IF Len(log) >= BattleLogMaxLen THEN Append(SubSeq(log, 1, Len(log) - 1), entry)
    ELSE Append(log, entry)

\* deque(maxlen=5).append
LogAppend(log, entry) ==
    IF Len(log) >= BattleLogMaxLen THEN Append(Tail(log), entry)
    ELSE Append(log, entry)

\* the position of the last living member instead of the first
LastAlive(roster) ==
    LET alive == {i \in 1..Len(roster) : is_alive(roster[i])}
    IN IF alive = {} THEN 0 ELSE CHOOSE i \in alive : \A j \in alive : i >= j

\* next(character for character in roster if character.is_alive()): its position
\* (0 when no member is alive: next() raises StopIteration)
FirstAlive(roster) ==
    LET alive == {i \in 1..Len(roster) : is_alive(roster[i])}
    IN IF alive = {} THEN 0 ELSE CHOOSE i \in alive : \A j \in alive : i <= j

\* handle_defeated_character without the entry appended to the battle log
handle_defeated_character_unlogged(gm, character) ==
    LET zeroed ==
            IF character.side = "player"
            THEN [gm EXCEPT !.player_characters[character.index].health_points = 0]
            ELSE [gm EXCEPT !.enemies[character.index].health_points = 0]
    IN
    IF ~is_game_over(zeroed)
    THEN IF character.side = "enemy"
         THEN [zeroed EXCEPT !.active_enemy_character = FirstAlive(zeroed.enemies)]
         ELSE [zeroed EXCEPT !.active_player_character = FirstAlive(zeroed.player_characters)]
    ELSE zeroed

\* handle_defeated_character leaving the defeated combatant's health_points as
\* they are
handle_defeated_character_keeps_health(gm, character) ==
    LET logged == [gm EXCEPT !.battle_log = LogAppend(@, "defeated")]
    IN
    IF ~is_game_over(logged)
    THEN IF character.side = "enemy"
         THEN [logged EXCEPT !.active_enemy_character = FirstAlive(logged.enemies)]
         ELSE [logged EXCEPT !.active_player_character = FirstAlive(logged.player_characters)]
    ELSE logged

\* GameManager.handle_defeated_character(character, opponent); character is a
\* reference to the defeated combatant
handle_defeated_character(gm, character) ==
    LET zeroed ==
            IF character.side = "player"
            THEN [gm EXCEPT !.player_characters[character.index].health_points = 0]
            ELSE [gm EXCEPT !.enemies[character.index].health_points = 0]
        logged == [zeroed EXCEPT !.battle_log = LogAppend(@, "defeated")]
    IN
    IF ~is_game_over(logged)
    THEN IF character.side = "enemy"
         THEN [logged EXCEPT !.active_enemy_character = FirstAlive(logged.enemies)]
         ELSE [logged EXCEPT !.active_player_character = FirstAlive(logged.player_characters)]
    ELSE logged

\* update_idle_character_stats without the max(..., 0) on defense_points
update_idle_character_stats_unclamped(idle_character) ==
    LET faster == [idle_character EXCEPT !.speed_points = @ + 1]
    IN IF ~IsEnemyCharacter(idle_character)
       THEN [faster EXCEPT !.magic_points = @ + 1]
       ELSE faster

\* GameManager.update_idle_character_stats
update_idle_character_stats(idle_character) ==
    LET faster == [idle_character EXCEPT !.speed_points = @ + 1]
        clamped == [faster EXCEPT !.defense_points = IF @ > 0 THEN @ ELSE 0]
    IN IF ~IsEnemyCharacter(idle_character)
       THEN [clamped EXCEPT !.magic_points = @ + 1]
       ELSE clamped

\* switch_active_player_characters without the is_alive test
switch_active_player_characters_unchecked(gm, chosen_character) ==
    [gm |-> [gm EXCEPT !.active_player_character = chosen_character],
     log |-> "switched"]

\* GameManager.switch_active_player_characters; chosen_character is the position
\* of the roster member picked in the menu
switch_active_player_characters(gm, chosen_character) ==
    IF is_alive(gm.player_characters[chosen_character])
    THEN [gm |-> [gm EXCEPT !.active_player_character = chosen_character],
          log |-> "switched"]
    ELSE [gm |-> gm, log |-> "switch_defeated"]

----------------------------------------------------------------------------
(* One round of GameManager.run_battle_logic.                              *)

\* the values random.random() yields for a sort key, by rank
TieBreaks == {0, 1}

\* the values of random.randint(lo, hi) the session specification draws
GameRolls(lo, hi) == {lo, hi}

\* the positions of the menu "Choose an Action" after "Attack" and "Heal":
\* one per skill of the active player, then "Switch characters"
SkillOptions(gm) ==
    0..(Len(gm.player_characters[gm.active_player_character].skills) - 1)

\* the entry of battle_log for a returned value: log[1] of the failure tuple,
\* else current_time + log
LogEntry(value) == value.val

\* the combatants of the round written back to the rosters
WithActive(gm, player, enemy, p, e) ==
    [gm EXCEPT !.player_characters[player] = p, !.enemies[enemy] = e]

\* lines 129-153: selected_action() for the option picked in the menu; arg is the
\* skill index or the roster member picked in the switch menu
selected_action(gm, player, enemy, option, arg, roll) ==
    LET p == gm.player_characters[player]
        e == gm.enemies[enemy]
    IN
    CASE option = "Attack" ->
           LET r == basic_attack(p, e, roll) IN
           [gm |-> WithActive(gm, player, enemy, r.self, r.target), log |-> StrValue(r.log)]
      [] option = "Heal" ->
           LET r == heal(p, roll) IN
           [gm |-> WithActive(gm, player, enemy, r.self, e), log |-> StrValue(r.log)]
      [] option = "Skill" ->
           LET r == use_skill(p, arg, TRUE, e, roll) IN
           [gm |-> WithActive(gm, player, enemy, r.self, r.target), log |-> r.ret]
      [] option = "Switch" ->
           LET r == switch_active_player_characters(gm, arg) IN
           [gm |-> r.gm, log |-> StrValue(r.log)]

\* lines 180-186: the defeat check that ends a round
defeat_check(gm, player, enemy) ==
    IF ~is_alive(gm.player_characters[player])
    THEN handle_defeated_character(gm, PlayerRef(player))
    ELSE IF ~is_alive(gm.enemies[enemy])
    THEN handle_defeated_character(gm, EnemyRef(enemy))
    ELSE gm

\* the player branch with the idle regeneration applied to the player character
\* that acted
player_branch_regenerates_player(gm, option, arg, roll) ==
    LET player == gm.active_player_character
        enemy == gm.active_enemy_character
        acted == selected_action(gm, player, enemy, option, arg, roll)
        logged == [acted.gm EXCEPT !.battle_log = LogAppend(@, LogEntry(acted.log))]
        idled == IF option /= "Switch"
                 THEN [logged EXCEPT
                          !.player_characters[player] = update_idle_character_stats(@)]
                 ELSE logged
    IN
    IF acted.log.type = "tuple"
    THEN [gm |-> logged, retry |-> TRUE]
    ELSE [gm |-> defeat_check(idled, player, enemy), retry |-> FALSE]

\* the player branch with the enemy's idle regeneration applied on a failed skill too
player_branch_regenerates(gm, option, arg, roll) ==
    LET player == gm.active_player_character
        enemy == gm.active_enemy_character
        acted == selected_action(gm, player, enemy, option, arg, roll)
        logged == [acted.gm EXCEPT !.battle_log = LogAppend(@, LogEntry(acted.log))]
        idled == IF option /= "Switch"
                 THEN [logged EXCEPT !.enemies[enemy] = update_idle_character_stats(@)]
                 ELSE logged
    IN
    IF acted.log.type = "tuple"
    THEN [gm |-> idled, retry |-> TRUE]
    ELSE [gm |-> defeat_check(idled, player, enemy), retry |-> FALSE]

\* lines 123-164 and 180-186: the player branch.  retry is TRUE when the action
\* returned the failure tuple and run_battle_logic(flag=True) is entered
player_branch(gm, option, arg, roll) ==
    LET player == gm.active_player_character
        enemy == gm.active_enemy_character
        acted == selected_action(gm, player, enemy, option, arg, roll)
        logged == [acted.gm EXCEPT !.battle_log = LogAppend(@, LogEntry(acted.log))]
        idled == IF option /= "Switch"
                 THEN [logged EXCEPT !.enemies[enemy] = update_idle_character_stats(@)]
                 ELSE logged
    IN
    IF acted.log.type = "tuple"
    THEN [gm |-> logged, retry |-> TRUE]
    ELSE [gm |-> defeat_check(idled, player, enemy), retry |-> FALSE]

\* the action the enemy's policy selects, run on the active player
enemy_action(gm, player, enemy, roll) ==
    LET p == gm.player_characters[player]
        e == gm.enemies[enemy]
        action == select_action(e, p)
    IN
    CASE action = "basic_attack" ->
           LET r == basic_attack(e, p, roll) IN
           [gm |-> WithActive(gm, player, enemy, r.target, r.self), log |-> r.log]
      [] action = "heal" ->
           LET r == heal(e, roll) IN
           [gm |-> WithActive(gm, player, enemy, p, r.self), log |-> r.log]
      [] action = "defend" ->
           LET r == defend(e) IN
           [gm |-> WithActive(gm, player, enemy, p, r.self), log |-> r.log]

\* the enemy branch with the idle regeneration applied to the enemy that acted
enemy_branch_regenerates_enemy(gm, roll) ==
    LET player == gm.active_player_character
        enemy == gm.active_enemy_character
        acted == enemy_action(gm, player, enemy, roll)
        logged == [acted.gm EXCEPT !.battle_log = LogAppend(@, acted.log)]
        idled == [logged EXCEPT !.enemies[enemy] = update_idle_character_stats(@)]
    IN defeat_check(idled, player, enemy)

\* the enemy branch with the idle regeneration applied to every member of the
\* player roster
enemy_branch_regenerates_roster(gm, roll) ==
    LET player == gm.active_player_character
        enemy == gm.active_enemy_character
        acted == enemy_action(gm, player, enemy, roll)
        logged == [acted.gm EXCEPT !.battle_log = LogAppend(@, acted.log)]
        idled == [logged EXCEPT !.player_characters =
                     [i \in 1..Len(@) |-> update_idle_character_stats(@[i])]]
    IN defeat_check(idled, player, enemy)

\* lines 166-186: the enemy branch
enemy_branch(gm, roll) ==
    LET player == gm.active_player_character
        enemy == gm.active_enemy_character
        acted == enemy_action(gm, player, enemy, roll)
        logged == [acted.gm EXCEPT !.battle_log = LogAppend(@, acted.log)]
        idled == [logged EXCEPT !.player_characters[player] = update_idle_character_stats(@)]
    IN defeat_check(idled, player, enemy)

\* the values random.randint yields in the action of an option
OptionRolls(gm, option, arg) ==
    CASE option = "Attack" -> GameRolls(CritRollMin, CritRollMax)
      [] option = "Heal" -> GameRolls(HealRollMin, HealRollMax)
      [] option = "Skill" ->
           LET skill == gm.player_characters[gm.active_player_character].skills[arg + 1]
           IN GameRolls(SkillRollMin(skill), SkillRollMax(skill))
      [] OTHER -> {0}

EnemyRolls(gm) ==
    LET action == select_action(gm.enemies[gm.active_enemy_character],
                                gm.player_characters[gm.active_player_character])
    IN CASE action = "basic_attack" -> GameRolls(CritRollMin, CritRollMax)
         [] action = "heal" -> GameRolls(HealRollMin, HealRollMax)
         [] OTHER -> {0}

----------------------------------------------------------------------------
(* Spec: one session of a GameManager.                                     *)

\* the largest roster the start scene lets the player choose
MaxPlayable == 3

\* the order in which the start scene's menu lists the job classes
JobOrder == <<"Tank", "MirrorMage", "Healer", "Assassin">>

\* the rosters drawn: 1 to 3 job classes in menu order from any first one
PlayerRosters ==
    { [i \in 1..n |-> JobOrder[((first + i - 2) % Len(JobOrder)) + 1]] :
        first \in 1..Len(JobOrder), n \in 1..MaxPlayable }

EnemyRosters == { <<"Viperstrike">>, <<"Doomshroud">>, <<"Viperstrike", "Doomshroud">> }

\* a roster as scenes.py hands it to GameManager: fresh from the start scene, or
\* carried over from a won combat with its first `defeated` members at
\* health_points 0 and the living ones restored (restore_all_character_stats
\* skips the defeated)
CarriedRoster(jobs, defeated) ==
    [i \in 1..Len(jobs) |->
        IF i <= defeated
        THEN [PlayerCharacter(jobs[i]) EXCEPT !.health_points = 0]
        ELSE PlayerCharacter(jobs[i])]

\* an argument that is not given
NoArgument == [name |-> "None"]

\* a call: the method, the side of the combatant it is made on, the value the
\* random source yields in it, and the combatants passed as they are at the call
Call(op, by, roll, self, target) ==
    [op |-> op, by |-> by, roll |-> roll, self |-> self, target |-> target]

StartCombatCall == Call("start_combat", "", 0, NoArgument, NoArgument)

\* GameManager.__init__
Init ==
    \E jobs \in PlayerRosters, names \in EnemyRosters :
    \E defeated \in 0..(Len(jobs) - 1), random_enemy \in TieBreaks, random_player \in TieBreaks :
        /\ player_characters = CarriedRoster(jobs, defeated)
        /\ enemies = [i \in 1..Len(names) |-> EnemyCharacter(names[i])]
        /\ active_player_character = 1
        /\ active_enemy_character = 1
        /\ turn_character =
              determine_turn_order(
                  [player_characters |-> CarriedRoster(jobs, defeated),
                   enemies |-> [i \in 1..Len(names) |-> EnemyCharacter(names[i])],
                   active_player_character |-> 1,
                   active_enemy_character |-> 1],
                  random_enemy, random_player)
        /\ battle_log = <<>>
        /\ pc = "loop"
        /\ ret = NoneValue
        /\ call = StartCombatCall
        /\ round = 0

SetGameManager(gm) ==
    /\ player_characters' = gm.player_characters
    /\ enemies' = gm.enemies
    /\ active_player_character' = gm.active_player_character
    /\ active_enemy_character' = gm.active_enemy_character
    /\ turn_character' = gm.turn_character
    /\ battle_log' = gm.battle_log

\* run_battle_logic is entered: by start_combat's loop (flag = False) or by itself
\* after a failed skill (flag = True)
Entered(flag) ==
    IF flag THEN pc = "prompt"
    ELSE pc = "loop" /\ ~is_game_over(GameManagerObject) /\ round < MaxRounds

\* lines 116-118: the turn character of the round
TurnCharacters(flag) ==
    IF flag THEN {turn_character}
    ELSE { determine_turn_order(GameManagerObject, random_enemy, random_player) :
             random_enemy \in TieBreaks, random_player \in TieBreaks }

\* a round in which the turn is the player's and the menu returns the option
PlayerRound(option, args) ==
    \E flag \in BOOLEAN :
        /\ Entered(flag)
        /\ \E turn \in TurnCharacters(flag) :
              /\ turn = PlayerRef(active_player_character)
              /\ \E arg \in args :
                 \E roll \in OptionRolls(GameManagerObject, option, arg) :
                    LET after == player_branch(
                                     [GameManagerObject EXCEPT !.turn_character = turn],
                                     option, arg, roll)
                    IN /\ SetGameManager(after.gm)
                       /\ pc' = IF after.retry THEN "prompt" ELSE "loop"
                       /\ round' = IF flag THEN round ELSE round + 1
                       /\ UNCHANGED <<ret, call>>

ChooseAttack == PlayerRound("Attack", {0})

ChooseHeal == PlayerRound("Heal", {0})

ChooseSkill == PlayerRound("Skill", SkillOptions(GameManagerObject))

ChooseSwitch == PlayerRound("Switch", 1..Len(player_characters))

\* a round in which the turn is the enemy's
EnemyRound ==
    /\ Entered(FALSE)
    /\ \E turn \in TurnCharacters(FALSE) :
          /\ turn /= PlayerRef(active_player_character)
          /\ \E roll \in EnemyRolls(GameManagerObject) :
                /\ SetGameManager(
                       enemy_branch([GameManagerObject EXCEPT !.turn_character = turn], roll))
                /\ pc' = "loop"
                /\ round' = round + 1
                /\ UNCHANGED <<ret, call>>

\* start_combat, lines 85-101: the loop ends and player_won() is returned
EndCombat ==
    /\ pc = "loop"
    /\ is_game_over(GameManagerObject)
    /\ pc' = "done"
    /\ ret' = BoolValue(player_won(GameManagerObject))
    /\ UNCHANGED <<player_characters, enemies, active_player_character,
                   active_enemy_character, turn_character, battle_log, call, round>>

Next ==
    \/ ChooseAttack
    \/ ChooseHeal
    \/ ChooseSkill
    \/ ChooseSwitch
    \/ EnemyRound
    \/ EndCombat

Spec == Init /\ [][Next]_vars

----------------------------------------------------------------------------
(* UnitSpec: the methods called one at a time on combatants drawn from     *)
(* bounded sets.  call holds the call made last, with the combatants as    *)
(* they were when it was made; ret holds what it returned.  A returned log *)
(* line is appended to battle_log, as run_battle_logic does.  A basic      *)
(* attack may be followed by a second one.                                 *)

UnitLuck == {0, 50, 100, 105}
UnitCritRolls == {CritRollMin, 50, 51, CritRollMax}
UnitEffects ==
    {<<>>} \cup { <<NewEffect(k)>> : k \in {"Invincible", "ReflectiveShield"} }
           \cup { <<NewEffect(k1), NewEffect(k2)>> :
                    k1 \in {"Invincible", "ReflectiveShield"},
                    k2 \in {"Invincible", "ReflectiveShield"} }
UnitHealth == {-1, 0, 1}
Sides == {"player", "enemy"}

UnitStart(players, foes, active_player, active_enemy, turn) ==
    /\ player_characters = players
    /\ enemies = foes
    /\ active_player_character = active_player
    /\ active_enemy_character = active_enemy
    /\ turn_character = turn
    /\ battle_log = <<>>
    /\ pc = "test"
    /\ ret = NoneValue
    /\ call = Call("none", "", 0, NoArgument, NoArgument)
    /\ round = 0

\* an attacker of one side and a target of the other
UnitInitAttack ==
    \E by \in Sides :
    \E attack \in 0..MaxStat, defense \in (-1)..MaxStat, luck \in UnitLuck,
       target_defense \in (-1)..MaxStat,
       effects \in IF by = "enemy" THEN UnitEffects ELSE {<<>>} :
        LET mage == PlayerCharacter("MirrorMage")
            viper == EnemyCharacter("Viperstrike")
            player == IF by = "player"
                      THEN [mage EXCEPT !.attack_points = attack,
                                        !.defense_points = defense, !.luck = luck]
                      ELSE [mage EXCEPT !.defense_points = target_defense,
                                        !.active_effects = effects]
            enemy == IF by = "enemy"
                     THEN [viper EXCEPT !.attack_points = attack,
                                        !.defense_points = defense, !.luck = luck]
                     ELSE [viper EXCEPT !.defense_points = target_defense]
        IN UnitStart(<<player>>, <<enemy>>, 1, 1,
                     IF by = "player" THEN PlayerRef(1) ELSE EnemyRef(1))

\* two rosters with any health_points and any active members
UnitInitRosters ==
    \E n \in 1..MaxPlayable, m \in 1..2 :
    \E player_health \in [1..n -> UnitHealth], enemy_health \in [1..m -> UnitHealth],
       active_player \in 1..n, active_enemy \in 1..m :
        UnitStart([i \in 1..n |-> [PlayerCharacter(JobOrder[i]) EXCEPT
                                      !.health_points = player_health[i]]],
                  [i \in 1..m |-> [EnemyCharacter("Viperstrike") EXCEPT
                                      !.health_points = enemy_health[i]]],
                  active_player, active_enemy, EnemyRef(active_enemy))

\* two active combatants with any speed_points
UnitInitSpeeds ==
    \E player_speed \in 0..MaxStat, enemy_speed \in 0..MaxStat :
        UnitStart(<<[PlayerCharacter("Tank") EXCEPT !.speed_points = player_speed]>>,
                  <<[EnemyCharacter("Doomshroud") EXCEPT !.speed_points = enemy_speed]>>,
                  1, 1, EnemyRef(1))

\* a caster of any job class with any speed_points and magic_points
UnitInitSkills ==
    \E job_class \in JobClasses, speed \in 0..MaxPoints, magic \in 0..MaxPoints :
        UnitStart(<<[PlayerCharacter(job_class) EXCEPT !.speed_points = speed,
                                                      !.magic_points = magic]>>,
                  <<EnemyCharacter("Viperstrike")>>, 1, 1, PlayerRef(1))

\* the enemy's health_points and defense_points around 0.2 and 0.5 of the
\* maxima of the two enemies
UnitPolicyHealth == 3..7
UnitPolicyDefense == 1..4

\* an enemy and an active player character with the stats select_action reads;
\* uneven adds 1 to the enemy's maxima
UnitInitPolicy ==
    \E name \in EnemyNames, uneven \in {0, 1}, attack \in 0..MaxStat,
       health \in UnitPolicyHealth, defense \in UnitPolicyDefense,
       player_health \in UnitHealth, player_defense \in {-1, MaxStat},
       active_player \in 1..2 :
        UnitStart([i \in 1..2 |->
                      IF i = active_player
                      THEN [PlayerCharacter(JobOrder[i]) EXCEPT
                               !.health_points = player_health,
                               !.defense_points = player_defense]
                      ELSE PlayerCharacter(JobOrder[i])],
                  <<[EnemyCharacter(name) EXCEPT
                        !.max_health_points = @ + uneven,
                        !.max_defense_points = @ + uneven,
                        !.attack_points = attack,
                        !.health_points = health,
                        !.defense_points = defense]>>,
                  active_player, 1, EnemyRef(1))

\* the defense_points and speed_points of a skill's target, around the values
\* the skills' rolls can take
UnitTargetDefense ==
    {-1, 0, ClawSwipeMin - 1, ClawSwipeMin, ClawSwipeMax, ClawSwipeMax + 1}
UnitTargetSpeed ==
    {-1, 0, CripplingStrikeMin - 1, CripplingStrikeMin, CripplingStrikeMin + 1,
     CripplingStrikeMax, CripplingStrikeMax + 1}

\* a caster of any job class with the points for any skill, and a target with
\* any defense_points or any speed_points
UnitInitTargets ==
    \E job_class \in JobClasses, vary \in {"defense_points", "speed_points"} :
    \E value \in IF vary = "defense_points" THEN UnitTargetDefense ELSE UnitTargetSpeed :
        UnitStart(<<[PlayerCharacter(job_class) EXCEPT !.speed_points = MaxPoints,
                                                      !.magic_points = MaxPoints]>>,
                  <<[EnemyCharacter("Viperstrike") EXCEPT ![vary] = value]>>,
                  1, 1, PlayerRef(1))

UnitInit ==
    \/ UnitInitAttack
    \/ UnitInitRosters
    \/ UnitInitSpeeds
    \/ UnitInitSkills
    \/ UnitInitPolicy
    \/ UnitInitTargets

ActivePlayer == player_characters[active_player_character]
ActiveEnemy == enemies[active_enemy_character]
ActiveOf(side) == IF side = "player" THEN ActivePlayer ELSE ActiveEnemy
Other(side) == IF side = "player" THEN "enemy" ELSE "player"

\* a call can be made: the first one, or a second attack after an attack
CanCall(op) ==
    \/ pc = "test"
    \/ pc = "after_first" /\ op = "basic_attack" /\ call.op = "basic_attack"

Returned == pc' = IF pc = "test" THEN "after_first" ELSE "after_second"

\* the active combatant of a side makes a basic attack on the other side's
CallBasicAttack ==
    \E by \in Sides, roll \in UnitCritRolls :
        LET attacker == ActiveOf(by)
            target == ActiveOf(Other(by))
            r == basic_attack(attacker, target, roll)
            gm == IF by = "player"
                  THEN WithActive(GameManagerObject, active_player_character,
                                  active_enemy_character, r.self, r.target)
                  ELSE WithActive(GameManagerObject, active_player_character,
                                  active_enemy_character, r.target, r.self)
        IN /\ CanCall("basic_attack")
           /\ SetGameManager([gm EXCEPT !.battle_log = LogAppend(@, r.log)])
           /\ ret' = StrValue(r.log)
           /\ call' = Call("basic_attack", by, roll, attacker, target)
           /\ Returned
           /\ UNCHANGED round

CallUpdateIdleCharacterStats ==
    \E by \in Sides :
        LET idle_character == ActiveOf(by)
            after == update_idle_character_stats(idle_character)
        IN /\ CanCall("update_idle_character_stats")
           /\ SetGameManager(
                  IF by = "player"
                  THEN WithActive(GameManagerObject, active_player_character,
                                  active_enemy_character, after, ActiveEnemy)
                  ELSE WithActive(GameManagerObject, active_player_character,
                                  active_enemy_character, ActivePlayer, after))
           /\ ret' = NoneValue
           /\ call' = Call("update_idle_character_stats", by, 0, idle_character, NoArgument)
           /\ Returned
           /\ UNCHANGED round

CallDetermineTurnOrder ==
    \E random_enemy \in TieBreaks, random_player \in TieBreaks :
        /\ CanCall("determine_turn_order")
        /\ ret' = RefValue(determine_turn_order(GameManagerObject, random_enemy, random_player))
        /\ call' = Call("determine_turn_order", "", 0, ActiveEnemy, ActivePlayer)
        /\ Returned
        /\ UNCHANGED <<player_characters, enemies, active_player_character,
                       active_enemy_character, turn_character, battle_log, round>>

CallIsGameOver ==
    /\ CanCall("is_game_over")
    /\ ret' = BoolValue(is_game_over(GameManagerObject))
    /\ call' = Call("is_game_over", "", 0, NoArgument, NoArgument)
    /\ Returned
    /\ UNCHANGED <<player_characters, enemies, active_player_character,
                   active_enemy_character, turn_character, battle_log, round>>

CallPlayerWon ==
    /\ CanCall("player_won")
    /\ ret' = BoolValue(player_won(GameManagerObject))
    /\ call' = Call("player_won", "", 0, NoArgument, NoArgument)
    /\ Returned
    /\ UNCHANGED <<player_characters, enemies, active_player_character,
                   active_enemy_character, turn_character, battle_log, round>>

\* run_battle_logic's defeat check finds the active combatant of a side not alive
CallHandleDefeatedCharacter ==
    \E by \in Sides :
        /\ CanCall("handle_defeated_character")
        /\ ~is_alive(ActiveOf(by))
        /\ SetGameManager(
               handle_defeated_character(
                   GameManagerObject,
                   IF by = "player" THEN PlayerRef(active_player_character)
                   ELSE EnemyRef(active_enemy_character)))
        /\ ret' = NoneValue
        /\ call' = Call("handle_defeated_character", by, 0,
                        ActiveOf(by), ActiveOf(Other(by)))
        /\ Returned
        /\ UNCHANGED round

\* the skill indices passed: the positions of a two-skill list, the one past the
\* end, and the negative ones down to the one before the start
UnitSkillIndices == (-3)..2

\* a use_skill call; target is the active enemy as it is at the call, passed as
\* the target argument when has_target
UseSkillCall(skill_index, has_target, roll, self, target) ==
    [op |-> "use_skill", by |-> "player", roll |-> roll, self |-> self,
     target |-> target, skill_index |-> skill_index, has_target |-> has_target]

\* the values random.randint yields in use_skill(skill_index)
UnitSkillRolls(self, skill_index) ==
    IF skill_index < Len(self.skills) /\ SkillPosition(self, skill_index) /= 0
    THEN LET skill == self.skills[SkillPosition(self, skill_index)]
         IN GameRolls(SkillRollMin(skill), SkillRollMax(skill))
    ELSE {0}

\* the active player character uses a skill, with the active enemy as target or
\* with no target
CallUseSkill ==
    \E skill_index \in UnitSkillIndices, has_target \in BOOLEAN :
    \E roll \in UnitSkillRolls(ActivePlayer, skill_index) :
        LET r == use_skill(ActivePlayer, skill_index, has_target, ActiveEnemy, roll)
        IN /\ CanCall("use_skill")
           /\ SetGameManager(WithActive(GameManagerObject, active_player_character,
                                        active_enemy_character, r.self, r.target))
           /\ ret' = r.ret
           /\ call' = UseSkillCall(skill_index, has_target, roll, ActivePlayer, ActiveEnemy)
           /\ Returned
           /\ UNCHANGED round

\* run_battle_logic lines 169-173: the active enemy selects its action on the
\* active player character and the action is run
CallSelectAction ==
    \E roll \in EnemyRolls(GameManagerObject) :
        LET acted == enemy_action(GameManagerObject, active_player_character,
                                  active_enemy_character, roll)
        IN /\ CanCall("select_action")
           /\ SetGameManager([acted.gm EXCEPT !.battle_log = LogAppend(@, acted.log)])
           /\ ret' = StrValue(acted.log)
           /\ call' = Call("select_action", "enemy", roll, ActiveEnemy, ActivePlayer)
           /\ Returned
           /\ UNCHANGED round

\* Scenes.restore_all_character_stats reaches the active player character
CallRestoreStats ==
    /\ CanCall("restore_stats")
    /\ SetGameManager(WithActive(GameManagerObject, active_player_character,
                                 active_enemy_character,
                                 restore_stats(ActivePlayer), ActiveEnemy))
    /\ ret' = NoneValue
    /\ call' = Call("restore_stats", "player", 0, ActivePlayer, NoArgument)
    /\ Returned
    /\ UNCHANGED round

\* a switch_active_player_characters call: self is the active player character
\* and target the chosen roster member as they are at the call
SwitchCall(old_active, chosen) ==
    [op |-> "switch_active_player_characters", by |-> "player", roll |-> 0,
     self |-> player_characters[old_active], target |-> player_characters[chosen],
     old_active |-> old_active, chosen |-> chosen]

\* the player picks a roster member in the menu "Switch Active Characters"
CallSwitchActivePlayerCharacters ==
    \E chosen \in 1..Len(player_characters) :
        LET r == switch_active_player_characters(GameManagerObject, chosen)
        IN /\ CanCall("switch_active_player_characters")
           /\ SetGameManager([r.gm EXCEPT !.battle_log = LogAppend(@, r.log)])
           /\ ret' = StrValue(r.log)
           /\ call' = SwitchCall(active_player_character, chosen)
           /\ Returned
           /\ UNCHANGED round

\* GameManager.invalid_option_handler called with the positional arguments the
\* menu's invalid_handler binds: the method takes self only, so a handler bound
\* to more than one argument raises TypeError when it is called
invalid_option_handler(bound) ==
    IF bound = 1 THEN NoneValue ELSE RaisedValue("TypeError")

\* the number of positional arguments bound in the invalid_handler of a menu:
\* the action menu passes the bound method self.invalid_option_handler, the
\* switch menu partial(GameManager.invalid_option_handler, player, enemy)
HandlerArguments(menu) ==
    IF menu = "Choose an Action" THEN 1 ELSE 2

\* the options of a menu, "Quit" excluded: Attack, Heal, the skills of the
\* active player character and Switch characters; or the roster members
MenuOptions(gm, menu) ==
    IF menu = "Choose an Action"
    THEN Len(gm.player_characters[gm.active_player_character].skills) + 3
    ELSE Len(gm.player_characters)

\* Ui.Menu.select_option on the lines typed at the prompt (a number, or 0 for
\* anything that is no option): options are numbered from 1, the last one is
\* "Quit".  prompts counts the times the menu was displayed.
RECURSIVE select_option(_, _, _, _)
select_option(options, choices, bound, prompts) ==
    IF choices = <<>>
    THEN [ret |-> RaisedValue("EOFError"), prompts |-> prompts + 1]
    ELSE LET choice == Head(choices)
         IN IF choice \in 1..options
            THEN IF choice = options
                 THEN [ret |-> RaisedValue("SystemExit"), prompts |-> prompts + 1]
                 ELSE [ret |-> [type |-> "option", val |-> "option", index |-> choice],
                       prompts |-> prompts + 1]
            ELSE IF invalid_option_handler(bound).type = "raise"
                 THEN [ret |-> invalid_option_handler(bound), prompts |-> prompts + 1]
                 ELSE select_option(options, Tail(choices), bound, prompts + 1)

\* the lines typed at a menu of the given number of options: a legal one,
\* or one that is no option followed by a legal one
MenuChoices(options) ==
    { <<v>> : v \in 1..options }
        \cup { <<i, v>> : i \in {0, options + 1}, v \in {1, options} }

\* a select_option call: the menu and the lines typed at it
SelectOptionCall(menu, choices) ==
    [op |-> "select_option", by |-> "player", roll |-> 0,
     self |-> ActivePlayer, target |-> NoArgument,
     menu |-> menu, choices |-> choices]

\* a menu of the player's turn is shown and answered
CallSelectOption ==
    \E menu \in {"Choose an Action", "Switch Active Characters"} :
        \E choices \in MenuChoices(MenuOptions(GameManagerObject, menu) + 1) :
            /\ pc = "test"
            /\ turn_character = PlayerRef(active_player_character)
            /\ SetGameManager(GameManagerObject)
            /\ ret' = select_option(MenuOptions(GameManagerObject, menu) + 1,
                                    choices, HandlerArguments(menu), 0).ret
            /\ call' = SelectOptionCall(menu, choices)
            /\ Returned
            /\ UNCHANGED round

UnitHealRolls == {HealRollMin, 5, HealRollMax}

\* the active combatant of a side heals itself
CallHeal ==
    \E by \in Sides, hp_increase \in UnitHealRolls :
        LET r == heal(ActiveOf(by), hp_increase)
            gm == IF by = "player"
                  THEN WithActive(GameManagerObject, active_player_character,
                                  active_enemy_character, r.self, ActiveEnemy)
                  ELSE WithActive(GameManagerObject, active_player_character,
                                  active_enemy_character, ActivePlayer, r.self)
        IN /\ CanCall("heal")
           /\ SetGameManager([gm EXCEPT !.battle_log = LogAppend(@, r.log)])
           /\ ret' = StrValue(r.log)
           /\ call' = Call("heal", by, hp_increase, ActiveOf(by), ActiveOf(Other(by)))
           /\ Returned
           /\ UNCHANGED round

UnitNext ==
    \/ CallHeal
    \/ CallSelectOption
    \/ CallSwitchActivePlayerCharacters
    \/ CallRestoreStats
    \/ CallSelectAction
    \/ CallUseSkill
    \/ CallBasicAttack
    \/ CallUpdateIdleCharacterStats
    \/ CallDetermineTurnOrder
    \/ CallIsGameOver
    \/ CallPlayerWon
    \/ CallHandleDefeatedCharacter

UnitSpec == UnitInit /\ [][UnitNext]_vars

----------------------------------------------------------------------------
(* ScenesSpec: main's loop over the start menu and the scenes run_scenes    *)
(* plays.  player_characters is Scenes.selected_characters, enemies the     *)
(* enemies of the last combat, round the number of play-throughs started,   *)
(* ret what the last scene returned and call the scene with what happened   *)
(* in it.  A combat is taken by its outcome: the members of the roster it   *)
(* defeated and what start_combat returned; the scenes read nothing else of *)
(* it.  The combats drawn are those in which the members fall in roster     *)
(* order, and the survivors are left with the stats they had.               *)

\* the play-throughs started from one start menu
MaxPlays == 2

\* the magic_points option_three_scene adds
MagicPointsAdded == 10

\* the rosters chosen in the start scene
SceneRosters == { jobs \in PlayerRosters : jobs[1] \in {"Tank", "Healer"} }

\* a scene and what happened in it: the option chosen in scene two's menu,
\* whether a combat was fought and whether start_combat returned True
SceneCall(scene, option, fought, won) ==
    [op |-> scene, by |-> option, roll |-> 0, self |-> NoArgument,
     target |-> NoArgument, fought |-> fought, player_won |-> won]

\* the number of living members among the first i of a roster
RECURSIVE LivingUpTo(_, _)
LivingUpTo(roster, i) ==
    IF i = 0 THEN 0
    ELSE LivingUpTo(roster, i - 1) + (IF is_alive(roster[i]) THEN 1 ELSE 0)

\* GameManager(roster, enemies).start_combat() in which the first `fallen`
\* living members of the roster are defeated: the enemies are all defeated if
\* a member is left, and the value returned is player_won()
start_combat(roster, names, fallen) ==
    LET after == [i \in 1..Len(roster) |->
                     IF is_alive(roster[i]) /\ LivingUpTo(roster, i) <= fallen
                     THEN [roster[i] EXCEPT !.health_points = 0]
                     ELSE roster[i]]
        foes == [i \in 1..Len(names) |->
                     IF AnyAlive(after)
                     THEN [EnemyCharacter(names[i]) EXCEPT !.health_points = 0]
                     ELSE EnemyCharacter(names[i])]
        gm == [player_characters |-> after, enemies |-> foes]
    IN [player_characters |-> after, enemies |-> foes, player_won |-> player_won(gm)]

\* Scenes.restore_all_character_stats
restore_all_character_stats(selected_characters) ==
    [i \in 1..Len(selected_characters) |->
        IF is_alive(selected_characters[i])
        THEN restore_stats(selected_characters[i])
        ELSE selected_characters[i]]

\* Scenes.add_points_to_all_characters("magic_points", amount)
add_points_to_all_characters(selected_characters, amount) ==
    [i \in 1..Len(selected_characters) |->
        IF is_alive(selected_characters[i])
        THEN [selected_characters[i] EXCEPT !.magic_points = @ + amount]
        ELSE selected_characters[i]]

\* scene_two.second_combat_scene on the roster: True when start_combat
\* returned False, else False
second_combat_scene(selected_characters, fallen) ==
    LET combat == start_combat(selected_characters, <<"Doomshroud">>, fallen)
    IN combat @@ [returned |-> ~combat.player_won]

\* what option_one_scene and option_three_scene return for the value
\* second_combat_scene handed them: they keep it in player_won, return True
\* if it is falsy and otherwise what option_two_scene returns, None
option_scene_return(returned) ==
    LET player_won_local == returned
    IN IF ~player_won_local THEN BoolValue(TRUE) ELSE NoneValue

\* a returned value is truthy
Truthy(value) == value = BoolValue(TRUE)

\* main: a Scenes object with no selected character, at the start menu
ScenesInit ==
    /\ player_characters = <<>>
    /\ enemies = <<>>
    /\ active_player_character = 1
    /\ active_enemy_character = 1
    /\ turn_character = PlayerRef(1)
    /\ battle_log = <<>>
    /\ pc = "start_menu"
    /\ ret = NoneValue
    /\ call = SceneCall("main", "", FALSE, FALSE)
    /\ round = 0

\* what the scenes never touch
SceneFrame == UNCHANGED <<active_player_character, active_enemy_character,
                          turn_character, battle_log>>

\* "Start" in the start menu: run_scenes plays start_scene, in which the player
\* chooses 1 to 3 characters that are appended to selected_characters
StartScene ==
    \E jobs \in SceneRosters :
        /\ pc = "start_menu"
        /\ round < MaxPlays
        /\ player_characters' =
               player_characters \o [i \in 1..Len(jobs) |-> PlayerCharacter(jobs[i])]
        /\ ret' = BoolValue(FALSE)
        /\ call' = SceneCall("start_scene", "", FALSE, FALSE)
        /\ pc' = "scene_one"
        /\ round' = round + 1
        /\ UNCHANGED enemies
        /\ SceneFrame

\* "Help" or "Settings" in the start menu and "Back" in the menu they show:
\* main is called again and makes a new Scenes object
BackToMain ==
    /\ pc = "start_menu"
    /\ player_characters' = <<>>
    /\ enemies' = <<>>
    /\ ret' = NoneValue
    /\ call' = SceneCall("main", "", FALSE, FALSE)
    /\ UNCHANGED <<pc, round>>
    /\ SceneFrame

\* run_scenes after a scene: the next scene, or the game-over screen when the
\* scene returned a truthy game_over
AfterScene(next) == pc' = IF Truthy(ret') THEN "game_over" ELSE next

\* scene_one: the combat with Viperstrike
SceneOne ==
    \E fallen \in 0..Len(player_characters) :
        LET combat == start_combat(player_characters, <<"Viperstrike">>, fallen)
        IN /\ pc = "scene_one"
           /\ fallen <= LivingUpTo(player_characters, Len(player_characters))
           /\ player_characters' = combat.player_characters
           /\ enemies' = combat.enemies
           /\ ret' = BoolValue(~combat.player_won)
           /\ call' = SceneCall("scene_one", "", TRUE, combat.player_won)
           /\ AfterScene("scene_two")
           /\ UNCHANGED round
           /\ SceneFrame

\* scene_two with "The Whispering Caverns" chosen: option_one_scene
OptionOneScene ==
    \E fallen \in 0..Len(player_characters) :
        LET restored == restore_all_character_stats(player_characters)
            combat == second_combat_scene(restored, fallen)
        IN /\ pc = "scene_two"
           /\ fallen <= LivingUpTo(player_characters, Len(player_characters))
           /\ player_characters' = combat.player_characters
           /\ enemies' = combat.enemies
           /\ ret' = option_scene_return(combat.returned)
           /\ call' = SceneCall("scene_two", "option_one_scene", TRUE, combat.player_won)
           /\ AfterScene("start_menu")
           /\ UNCHANGED round
           /\ SceneFrame

\* scene_two with "The Misty Peaks" chosen: option_two_scene, which returns None
OptionTwoScene ==
    /\ pc = "scene_two"
    /\ ret' = NoneValue
    /\ call' = SceneCall("scene_two", "option_two_scene", FALSE, FALSE)
    /\ AfterScene("start_menu")
    /\ UNCHANGED <<player_characters, enemies, round>>
    /\ SceneFrame

\* scene_two with "The Enchanted Meadows" chosen: option_three_scene
OptionThreeScene ==
    \E fallen \in 0..Len(player_characters) :
        LET charged == add_points_to_all_characters(player_characters, MagicPointsAdded)
            combat == second_combat_scene(charged, fallen)
        IN /\ pc = "scene_two"
           /\ fallen <= LivingUpTo(player_characters, Len(player_characters))
           /\ player_characters' = combat.player_characters
           /\ enemies' = combat.enemies
           /\ ret' = option_scene_return(combat.returned)
           /\ call' = SceneCall("scene_two", "option_three_scene", TRUE, combat.player_won)
           /\ AfterScene("start_menu")
           /\ UNCHANGED round
           /\ SceneFrame

\* run_scenes, lines 234-240: the scene returned a truthy game_over; the roster
\* is reset and the game-over screen shown, and main shows the start menu
GameOverScreen ==
    /\ pc = "game_over"
    /\ player_characters' = <<>>
    /\ pc' = "start_menu"
    /\ call' = [call EXCEPT !.op = "display_game_over"]
    /\ UNCHANGED <<enemies, ret, round>>
    /\ SceneFrame

ScenesNext ==
    \/ StartScene
    \/ BackToMain
    \/ SceneOne
    \/ OptionOneScene
    \/ OptionTwoScene
    \/ OptionThreeScene
    \/ GameOverScreen

ScenesSpec == ScenesInit /\ [][ScenesNext]_vars

----------------------------------------------------------------------------
(* Properties.  The ones about single methods are stated on UnitSpec: in a *)
(* state reached by a call, call.self and call.target are the combatants   *)
(* as they were when the call was made.                                    *)

After(op) == pc /= "test" /\ call.op = op

Max(a, b) == IF a > b THEN a ELSE b
Min(a, b) == IF a < b THEN a ELSE b

\* every member of the roster has health_points <= 0
AllDefeated(roster) == \A i \in 1..Len(roster) : roster[i].health_points <= 0

\* both rosters have a member with health_points > 0
BothSidesAlive ==
    /\ \E i \in 1..Len(player_characters) : player_characters[i].health_points > 0
    /\ \E i \in 1..Len(enemies) : enemies[i].health_points > 0

\* C1: determine_turn_order returns the active combatant with the strictly
\* higher speed_points, whichever of the two is listed first and whatever the
\* tie-break values are; with equal speed_points it returns one of the two.
C1_TurnOrder ==
    After("determine_turn_order") =>
        LET enemy == EnemyRef(active_enemy_character)
            player == PlayerRef(active_player_character)
            enemy_speed == call.self.speed_points
            player_speed == call.target.speed_points
        IN /\ ret.type = "ref"
           /\ enemy_speed > player_speed => ret = RefValue(enemy)
           /\ player_speed > enemy_speed => ret = RefValue(player)
           /\ ret \in {RefValue(enemy), RefValue(player)}
           /\ \A random_enemy \in TieBreaks, random_player \in TieBreaks :
                 enemy_speed /= player_speed =>
                    /\ RefValue(SortedFirst(enemy, player,
                                            <<enemy_speed, random_enemy>>,
                                            <<player_speed, random_player>>)) = ret
                    /\ RefValue(SortedFirst(player, enemy,
                                            <<player_speed, random_player>>,
                                            <<enemy_speed, random_enemy>>)) = ret

\* a tie in speed_points resolved in favour of the player's combatant
C1_Witness ==
    /\ After("determine_turn_order")
    /\ call.self.speed_points = call.target.speed_points
    /\ ret = RefValue(PlayerRef(active_player_character))

\* C2: is_game_over is True exactly when every member of at least one roster
\* has health_points <= 0; player_won is True exactly when the game is over,
\* some player character is alive and no enemy is.
C2_GameOver ==
    LET over == AllDefeated(player_characters) \/ AllDefeated(enemies) IN
    /\ After("is_game_over") => ret = BoolValue(over)
    /\ After("player_won") =>
          ret = BoolValue(/\ over
                          /\ \E i \in 1..Len(player_characters) :
                                player_characters[i].health_points > 0
                          /\ \A i \in 1..Len(enemies) : enemies[i].health_points <= 0)

\* the game is over with a player roster that is only partly defeated
C2_Witness ==
    /\ After("is_game_over")
    /\ ret = BoolValue(TRUE)
    /\ \E i \in 1..Len(player_characters) : player_characters[i].health_points > 0
    /\ \E i \in 1..Len(player_characters) : player_characters[i].health_points < 0
    /\ Len(enemies) = 2

\* C3: start_combat runs another round exactly while both rosters have a living
\* member; once one roster has none, nothing about the rosters, the pointers,
\* the turn or the log changes any more, and it returns True exactly when some
\* player character is alive and no enemy is.
C3_CombatLoop ==
    [][ /\ round' /= round => BothSidesAlive
        /\ (pc = "loop" /\ pc' = "done") =>
              /\ ~BothSidesAlive
              /\ ret' = BoolValue(/\ \E i \in 1..Len(player_characters) :
                                        player_characters[i].health_points > 0
                                  /\ \A i \in 1..Len(enemies) :
                                        enemies[i].health_points <= 0)
        /\ ~BothSidesAlive =>
              UNCHANGED <<player_characters, enemies, active_player_character,
                          active_enemy_character, turn_character, battle_log, round>>
      ]_vars

\* a combat won after rounds were fought, with a player character defeated in it
C3_Witness ==
    /\ pc = "done"
    /\ ret = BoolValue(TRUE)
    /\ round > 1
    /\ \E i \in 1..Len(player_characters) :
          /\ player_characters[i].health_points <= 0
          /\ i > 1

\* C4: at the end of every round, after the defeat check, no combatant of either
\* roster has health_points below 0.
C4_NoNegativeHealth ==
    (pc \in {"loop", "done"} /\ round > 0) =>
        /\ \A i \in 1..Len(player_characters) : player_characters[i].health_points >= 0
        /\ \A i \in 1..Len(enemies) : enemies[i].health_points >= 0

\* C5: after handle_defeated_character, if the game is not over the defeated
\* side's pointer is on the first living member of its roster in roster order
\* and the other side's pointer is as before; if the game is over neither
\* pointer has moved.
C5_DefeatHandled ==
    [][ (call'.op = "handle_defeated_character" /\ pc' /= pc) =>
          LET roster == IF call'.by = "player" THEN player_characters' ELSE enemies'
              pointer == IF call'.by = "player" THEN active_player_character'
                         ELSE active_enemy_character'
          IN IF BothSidesAlive'
             THEN /\ roster[pointer].health_points > 0
                  /\ \A j \in 1..(pointer - 1) : roster[j].health_points <= 0
                  /\ call'.by = "player" => UNCHANGED active_enemy_character
                  /\ call'.by = "enemy" => UNCHANGED active_player_character
             ELSE UNCHANGED <<active_player_character, active_enemy_character>>
      ]_vars

\* the third player character is the one defeated and the pointer has gone to
\* the first, not to the second, both of which are alive
C5_Witness ==
    /\ After("handle_defeated_character")
    /\ call.by = "player"
    /\ Len(player_characters) = 3
    /\ call.self.name = player_characters[3].name
    /\ call.self.health_points < 0
    /\ player_characters[3].health_points = 0
    /\ player_characters[1].health_points > 0
    /\ player_characters[2].health_points > 0
    /\ active_player_character = 1

\* the combatant holds an active effect of the kind
HoldsEffect(character, kind) ==
    /\ "active_effects" \in DOMAIN character
    /\ \E i \in 1..Len(character.active_effects) : character.active_effects[i].kind = kind

\* the combatant holds no active effect that intercepts an attack
Unprotected(character) ==
    ~HoldsEffect(character, "Invincible") /\ ~HoldsEffect(character, "ReflectiveShield")

\* the attacker and the target of the last basic_attack as they are now
Attacker == ActiveOf(call.by)
Target == ActiveOf(Other(call.by))

\* C6: a non-critical basic_attack on a target without effects lowers the
\* target's health_points by max(attack_points - defense_points, 0), never
\* raising them, lowers the target's defense_points by 1 without a floor and the
\* attacker's speed_points by 1, and changes nothing else of either combatant.
C6_PlainAttack ==
    (After("basic_attack") /\ Unprotected(call.target) /\ call.roll > call.self.luck) =>
        LET damage == Max(call.self.attack_points - call.target.defense_points, 0) IN
        /\ Target = [call.target EXCEPT !.health_points = @ - damage,
                                        !.defense_points = @ - 1]
        /\ Target.health_points <= call.target.health_points
        /\ Attacker = [call.self EXCEPT !.speed_points = @ - 1]
        /\ ret = StrValue(IF damage = 0 THEN "blocked" ELSE "attacked")

\* an attack fully absorbed by the defense takes the target's defense_points
\* from 0 to -1
C6_Witness ==
    /\ After("basic_attack")
    /\ ret = StrValue("blocked")
    /\ call.self.attack_points = 0
    /\ call.target.defense_points = 0
    /\ Target.defense_points = -1
    /\ Target.health_points = call.target.health_points

C8_Invincible ==
    /\ ( /\ After("basic_attack")
         /\ "active_effects" \in DOMAIN call.target
         /\ Cardinality({i \in 1..Len(call.target.active_effects) :
                            call.target.active_effects[i].kind = "Invincible"}) = 1
         /\ \A i \in 1..Len(call.target.active_effects) :
               call.target.active_effects[i].use_count = 1 )
       => /\ ret = StrValue("rejected")
          /\ Target.health_points = call.target.health_points
          /\ Target.defense_points = call.target.defense_points
          /\ Attacker = [call.self EXCEPT !.speed_points = @ - 1]
          /\ ~HoldsEffect(Target, "Invincible")
          /\ Len(Target.active_effects) = Len(call.target.active_effects) - 1
          /\ HoldsEffect(Target, "ReflectiveShield")
                <=> HoldsEffect(call.target, "ReflectiveShield")
    /\ ( /\ pc = "after_second"
         /\ call.op = "basic_attack"
         /\ call.by = "enemy"
         /\ battle_log[1] = "rejected"
         /\ ~HoldsEffect(call.target, "Invincible") )
       => /\ ret /= StrValue("rejected")
          /\ Unprotected(call.target) =>
                Target.defense_points = call.target.defense_points - 1

\* the attack after a rejected one lands on the target
C8_Witness ==
    /\ pc = "after_second"
    /\ call.op = "basic_attack"
    /\ call.by = "enemy"
    /\ battle_log = <<"rejected", "attacked">>
    /\ Target.active_effects = <<>>
    /\ Target.health_points < call.target.health_points

\* C9: an attack reflected by a ReflectiveShield deals the attacker's
\* attack_points to the attacker: the attacker's defense_points drop by
\* min(damage, defense_points) and its health_points by
\* max(0, damage - defense_points), which add up to the damage; the target's
\* health_points and defense_points stay, and its shield, used up, is removed.
C9_Reflection ==
    ( /\ After("basic_attack")
      /\ ~HoldsEffect(call.target, "Invincible")
      /\ HoldsEffect(call.target, "ReflectiveShield") )
    => LET damage == call.self.attack_points
           defense_points_loss == Min(damage, call.self.defense_points)
           health_points_loss == Max(0, damage - call.self.defense_points)
       IN /\ ret = StrValue("reflected")
          /\ Attacker = [call.self EXCEPT
                            !.speed_points = @ - 1,
                            !.defense_points = @ - defense_points_loss,
                            !.health_points = @ - health_points_loss]
          /\ call.self.defense_points - Attacker.defense_points
                + call.self.health_points - Attacker.health_points = damage
          /\ Target = [call.target EXCEPT !.active_effects = Tail(@)]

\* a reflected attack of 2 against the attacker's own defense_points of 1 takes
\* 1 from each of its defense_points and health_points
C9_Witness ==
    /\ After("basic_attack")
    /\ ret = StrValue("reflected")
    /\ call.self.attack_points = 2
    /\ call.self.defense_points = 1
    /\ Attacker.defense_points = 0
    /\ Attacker.health_points = call.self.health_points - 1
    /\ Target.active_effects = <<>>

\* C10: update_idle_character_stats sets the idle combatant's defense_points to
\* max(defense_points, 0), raises its speed_points by 1 and, for a player
\* character only, its magic_points by 1; nothing else of it changes.
C10_IdleRegeneration ==
    After("update_idle_character_stats") =>
        LET before == call.self
            regenerated == [before EXCEPT !.defense_points = Max(@, 0),
                                          !.speed_points = @ + 1]
        IN /\ call.by = "player" =>
                ActivePlayer = [regenerated EXCEPT !.magic_points = @ + 1]
           /\ call.by = "enemy" =>
                /\ ActiveEnemy = regenerated
                /\ "magic_points" \notin DOMAIN ActiveEnemy

\* an idle player character with defense_points below 0 is brought to 0
C10_Witness ==
    /\ After("update_idle_character_stats")
    /\ call.by = "player"
    /\ call.self.defense_points < 0
    /\ ActivePlayer.defense_points = 0
    /\ ActivePlayer.magic_points = call.self.magic_points + 1

\* new is old with the entry appended, the oldest entry dropped if old was full
Appended(old, new, entry) ==
    LET all == old \o <<entry>>
    IN new = SubSeq(all, Max(1, Len(all) - BattleLogMaxLen + 1), Len(all))

\* the step is a choice of the player's active character in the menu
ChosenByPlayer ==
    \E option \in {"Attack", "Heal", "Skill", "Switch"} :
    \E arg \in (CASE option = "Skill" -> SkillOptions(GameManagerObject)
                  [] option = "Switch" -> 1..Len(player_characters)
                  [] OTHER -> {0}) :
    \E roll \in OptionRolls(GameManagerObject, option, arg) :
        LET after == player_branch(GameManagerObject, option, arg, roll).gm
        IN /\ player_characters' = after.player_characters
           /\ enemies' = after.enemies
           /\ active_player_character' = after.active_player_character
           /\ active_enemy_character' = after.active_enemy_character
           /\ battle_log' = after.battle_log

\* C11: when the skill the player chooses fails the cost check, no stat of any
\* combatant and no pointer changes, the enemy gets no idle regeneration, the
\* one change is the failure reason appended to the battle log, and the same
\* player character chooses again in the same round with the turn character
\* as it is, before the enemy acts.
C11_FailedSkillRetry ==
    [][ /\ pc' = "prompt" =>
              /\ UNCHANGED <<player_characters, enemies, active_player_character,
                             active_enemy_character>>
              /\ \E reason \in {"no_speed", "no_magic"} :
                    Appended(battle_log, battle_log', reason)
              /\ turn_character' = PlayerRef(active_player_character)
        /\ pc = "prompt" =>
              /\ turn_character = PlayerRef(active_player_character)
              /\ turn_character' = turn_character
              /\ round' = round
              /\ ChosenByPlayer
      ]_vars

\* a skill was refused for its magic cost after an earlier refusal in the same
\* round, and the player's character is asked again
C11_Witness ==
    /\ pc = "prompt"
    /\ turn_character = PlayerRef(active_player_character)
    /\ Len(battle_log) >= 2
    /\ battle_log[Len(battle_log)] = "no_magic"
    /\ battle_log[Len(battle_log) - 1] = "no_magic"

\* the last call was use_skill with an index that is a position of the caster's
\* skills list
ValidSkillCall ==
    /\ After("use_skill")
    /\ call.skill_index \in 0..(Len(call.self.skills) - 1)

\* C12: use_skill with a valid index passes the cost check exactly when the
\* caster's speed_points and magic_points both reach the skill's costs; when
\* both fall short the reason reported is the one about speed points; when the
\* check passes, the two costs, and nothing more, are taken from the caster's
\* speed_points and magic_points.
C12_SkillCost ==
    ValidSkillCall =>
        LET skill == call.self.skills[call.skill_index + 1]
            speed_cost == skill_attributes[skill].sp_cost
            magic_cost == skill_attributes[skill].mp_cost
            enough_speed == call.self.speed_points >= speed_cost
            enough_magic == call.self.magic_points >= magic_cost
        IN /\ (ret.type /= "tuple") <=> (enough_speed /\ enough_magic)
           /\ ~enough_speed => ret = TupleValue("no_speed")
           /\ (enough_speed /\ ~enough_magic) => ret = TupleValue("no_magic")
           /\ ret.type = "tuple" => ActivePlayer = call.self /\ ActiveEnemy = call.target
           /\ (enough_speed /\ enough_magic) =>
                 /\ ActivePlayer.speed_points = call.self.speed_points - speed_cost
                 /\ ActivePlayer.magic_points = call.self.magic_points - magic_cost

\* a caster short of both speed and magic points for the skill is told about
\* the speed points
C12_Witness ==
    /\ ValidSkillCall
    /\ call.self.speed_points < skill_attributes[call.self.skills[call.skill_index + 1]].sp_cost
    /\ call.self.magic_points < skill_attributes[call.self.skills[call.skill_index + 1]].mp_cost
    /\ ret = TupleValue("no_speed")

\* C13: use_skill called without a target for a skill that requires one is
\* reported and aborted with nothing changed: the caster's speed_points,
\* magic_points and every other stat are as before the call.
C13_MissingTarget ==
    ( /\ ValidSkillCall
      /\ ~call.has_target
      /\ skill_attributes[call.self.skills[call.skill_index + 1]].require_target )
    => /\ ret.type \in {"None", "tuple"}
       /\ ActivePlayer = call.self
       /\ ActiveEnemy = call.target

\* C14: use_skill with an index that is no position of the skills list, negative
\* ones included, reports it without raising, uses no skill and changes nothing.
C14_InvalidIndex ==
    ( /\ After("use_skill")
      /\ call.skill_index \notin 0..(Len(call.self.skills) - 1) )
    => /\ ret = NoneValue
       /\ ActivePlayer = call.self
       /\ ActiveEnemy = call.target

\* C15: select_action picks a basic attack on the active player character when
\* the player's health_points + defense_points are below the enemy's
\* attack_points, whatever the enemy's own state; otherwise heal when the
\* enemy's health_points are below 20% of its maximum; otherwise defend when its
\* defense_points are below 50% of its maximum; otherwise a basic attack.  The
\* attack lands on the player character passed in and on no other member.
C15_EnemyPolicy ==
    [][ (call'.op = "select_action" /\ pc' /= pc) =>
          LET lethal == ActivePlayer.health_points + ActivePlayer.defense_points
                           < ActiveEnemy.attack_points
              low_health == 5 * ActiveEnemy.health_points < ActiveEnemy.max_health_points
              low_defense == 2 * ActiveEnemy.defense_points < ActiveEnemy.max_defense_points
              attacks == lethal \/ (~low_health /\ ~low_defense)
          IN /\ attacks =>
                  /\ ret'.val \in {"critical", "attacked", "blocked", "rejected", "reflected"}
                  /\ ActiveEnemy'.speed_points = ActiveEnemy.speed_points - 1
                  /\ Unprotected(ActivePlayer) =>
                        /\ ActiveEnemy' = [ActiveEnemy EXCEPT !.speed_points = @ - 1]
                        /\ ActivePlayer'.defense_points = ActivePlayer.defense_points - 1
             /\ (~lethal /\ low_health) =>
                  /\ ret' = StrValue("healed")
                  /\ ActiveEnemy'.health_points > ActiveEnemy.health_points
                  /\ ActivePlayer' = ActivePlayer
             /\ (~lethal /\ ~low_health /\ low_defense) =>
                  /\ ret' = StrValue("defended")
                  /\ ActiveEnemy' = [ActiveEnemy EXCEPT
                                        !.defense_points = ActiveEnemy.max_defense_points]
                  /\ ActivePlayer' = ActivePlayer
             /\ \A i \in 1..Len(player_characters) :
                   i /= active_player_character =>
                      player_characters'[i] = player_characters[i]
             /\ UNCHANGED <<active_player_character, active_enemy_character>>
      ]_vars

\* an enemy low on both health_points and defense_points attacked the second
\* roster member, the active one, whom the attack could defeat
C15_Witness ==
    /\ After("select_action")
    /\ 5 * call.self.health_points < call.self.max_health_points
    /\ 2 * call.self.defense_points < call.self.max_defense_points
    /\ call.target.health_points + call.target.defense_points < call.self.attack_points
    /\ ret.val \in {"critical", "attacked"}
    /\ active_player_character = 2
    /\ ActivePlayer.health_points < call.target.health_points

\* new holds the entries of old in their order, the oldest ones dropped, followed
\* by `added` new entries, and no more than BattleLogMaxLen in all
KeepsOrder(old, new, added) ==
    LET kept == Len(new) - added IN
    /\ Len(new) = Min(Len(old) + added, BattleLogMaxLen)
    /\ kept >= 0
    /\ SubSeq(new, 1, kept) = SubSeq(old, Len(old) - kept + 1, Len(old))

\* C16: the battle log never holds more than 5 entries and keeps them in the
\* order they were appended; an append to a log of 5 drops exactly the oldest
\* entry and keeps the other four, in order, before the new one.
C16_BoundedLog ==
    [][ /\ Len(battle_log) <= 5
        /\ Len(battle_log') <= 5
        /\ \E added \in 0..2 : KeepsOrder(battle_log, battle_log', added)
        /\ (Len(battle_log) = 5 /\ pc' = "prompt") =>
              /\ Len(battle_log') = 5
              /\ \A i \in 1..4 : battle_log'[i] = battle_log[i + 1]
              /\ battle_log'[5] \in {"no_speed", "no_magic"}
      ]_vars

\* a full log whose oldest entry is a defeat entry: the action entry appended
\* before it has been dropped
C16_Witness ==
    /\ Len(battle_log) = 5
    /\ battle_log[1] = "defeated"

\* C17: a round whose action is executed appends one entry for the action and,
\* exactly when a defeat is handled in it, one more for the defeat; nothing else
\* is appended, idle regeneration included.
C17_LogEntries ==
    [][ (pc' = "loop" /\ pc /= "done") =>
          LET defeat ==
                 \/ player_characters'[active_player_character].health_points <= 0
                 \/ enemies'[active_enemy_character].health_points <= 0
              last == battle_log'[Len(battle_log')]
          IN IF defeat
             THEN /\ KeepsOrder(battle_log, battle_log', 2)
                  /\ last = "defeated"
                  /\ battle_log'[Len(battle_log') - 1]
                        \notin {"defeated", "no_speed", "no_magic"}
             ELSE /\ KeepsOrder(battle_log, battle_log', 1)
                  /\ last \notin {"defeated", "no_speed", "no_magic"}
      ]_vars

\* two rounds without a refused skill have left three entries, the last of them
\* for a defeat handled in the second round
C17_Witness ==
    /\ pc = "loop"
    /\ round = 2
    /\ Len(battle_log) = 3
    /\ battle_log[3] = "defeated"
    /\ battle_log[1] \notin {"no_speed", "no_magic"}
    /\ battle_log[2] \notin {"no_speed", "no_magic", "defeated"}

\* C18: restore_stats sets a combatant's health_points and defense_points to
\* their maxima and leaves its speed_points, magic_points and luck as they were.
C18_RestoreKeepsPoints ==
    After("restore_stats") =>
        /\ ActivePlayer.health_points = ActivePlayer.max_health_points
        /\ ActivePlayer.defense_points = ActivePlayer.max_defense_points
        /\ ActivePlayer.speed_points = call.self.speed_points
        /\ ActivePlayer.magic_points = call.self.magic_points
        /\ ActivePlayer.luck = call.self.luck

\* C18, as the code has it: restore_stats sets health_points and defense_points
\* to their maxima and also sets speed_points, magic_points, luck and
\* attack_points back to the job class's catalog values; name, skills and
\* active effects stay.
C18_RestoreStats ==
    After("restore_stats") =>
        LET attr == job_class_attributes[call.self.job_class] IN
        /\ ActivePlayer = [call.self EXCEPT !.health_points = attr.HP,
                                            !.defense_points = attr.DP,
                                            !.max_health_points = attr.HP,
                                            !.max_defense_points = attr.DP,
                                            !.attack_points = attr.AP,
                                            !.speed_points = attr.SP,
                                            !.magic_points = attr.MP,
                                            !.luck = attr.Luck]
        /\ ActivePlayer.health_points = call.self.max_health_points
        /\ ActivePlayer.defense_points = call.self.max_defense_points

\* a character with other speed_points, magic_points and luck than its job
\* class starts with has them set back
C18_Witness ==
    /\ After("restore_stats")
    /\ call.self.speed_points > ActivePlayer.speed_points
    /\ call.self.magic_points < ActivePlayer.magic_points
    /\ ActivePlayer.speed_points = job_class_attributes[call.self.job_class].SP
    /\ ActivePlayer.magic_points = job_class_attributes[call.self.job_class].MP

\* the step is a round in which the player chose "Switch characters": the
\* round's action entry, the last one or the one before a defeat entry, is a
\* switch entry
SwitchRound ==
    /\ pc /= "done"
    /\ pc' = "loop"
    /\ LET n == Len(battle_log') IN
       \/ battle_log'[n] \in {"switched", "switch_defeated"}
       \/ /\ n >= 2
          /\ battle_log'[n] = "defeated"
          /\ battle_log'[n - 1] \in {"switched", "switch_defeated"}

\* C19: a round in which the player chooses switch changes no stat of any
\* combatant of either side (no idle regeneration for the enemy, no speed_points
\* paid by the player); the only changes are the active player pointer, when a
\* living member was chosen, and one entry appended to the log.
C19_SwitchRound ==
    [][ SwitchRound =>
          /\ UNCHANGED <<player_characters, enemies, active_enemy_character>>
          /\ KeepsOrder(battle_log, battle_log', 1)
          /\ battle_log'[Len(battle_log')] \in {"switched", "switch_defeated"}
          /\ battle_log'[Len(battle_log')] = "switch_defeated"
                => UNCHANGED active_player_character
          /\ is_alive(player_characters[active_player_character'])
                \/ UNCHANGED active_player_character
      ]_vars

\* C20: switch_active_player_characters never makes a defeated combatant the
\* active player: choosing a member with health_points <= 0 leaves the pointer
\* where it was, choosing a living member puts the pointer on that member.
C20_SwitchToLiving ==
    After("switch_active_player_characters") =>
        /\ call.target.health_points <= 0 =>
              /\ active_player_character = call.old_active
              /\ ret = StrValue("switch_defeated")
        /\ call.target.health_points > 0 =>
              /\ active_player_character = call.chosen
              /\ ret = StrValue("switched")
        /\ active_player_character /= call.old_active => ActivePlayer.health_points > 0
        /\ player_characters[call.chosen] = call.target
        /\ player_characters[call.old_active] = call.self

\* the third member, defeated, was chosen while the living second one was
\* active, and the second one is still active
C20_Witness ==
    /\ After("switch_active_player_characters")
    /\ call.chosen = 3
    /\ call.old_active = 2
    /\ call.target.health_points <= 0
    /\ call.self.health_points > 0
    /\ active_player_character = 2

(* C21: a selection outside the legal set, in the action menu and in the   *)
(* character-switch menu alike, leads to a re-prompt of the same menu with *)
(* core state untouched: no combatant, active pointer, turn holder or log  *)
(* entry changes, the session does not fail, and the menu returns only     *)
(* once a legal option is selected (the last line typed).                  *)
C21_InvalidSelection ==
    [][ (pc = "test" /\ call'.op = "select_option") =>
            LET last == call'.choices[Len(call'.choices)]
            IN /\ UNCHANGED <<player_characters, enemies, active_player_character,
                              active_enemy_character, turn_character, battle_log>>
               /\ ret'.type = "raise" =>
                      /\ ret'.val = "SystemExit"
                      /\ last = MenuOptions(GameManagerObject, call'.menu) + 1
               /\ ret'.type /= "raise" =>
                      /\ ret'.type = "option"
                      /\ ret'.index = last
                      /\ last \in 1..MenuOptions(GameManagerObject, call'.menu) ]_vars

(* C22: the luck of every combatant stays within [0, 100] in every         *)
(* reachable state of a combat session, for any sequence of actions,       *)
(* repeated LuckyCharm uses included.                                      *)
C22_LuckRange ==
    /\ \A i \in 1..Len(player_characters) : player_characters[i].luck \in 0..100
    /\ \A i \in 1..Len(enemies) : enemies[i].luck \in 0..100

SkillUsed(skill) ==
    /\ ValidSkillCall
    /\ call.self.skills[call.skill_index + 1] = skill
    /\ ret = StrValue(skill)

\* the caster as use_skill leaves it when the skill does not change the caster
CasterPaid(skill) ==
    [call.self EXCEPT !.speed_points = @ - skill_attributes[skill].sp_cost,
                      !.magic_points = @ - skill_attributes[skill].mp_cost]

(* C24: ClawSwipe always leaves the target's defense_points at exactly 0   *)
(* and, for a roll r in 25..35 and the target's previous defense d,        *)
(* reduces the target's health_points by exactly max(0, r - d): by r - d   *)
(* when r > d and by nothing when r <= d.                                  *)
C24_ClawSwipe ==
    SkillUsed("ClawSwipe") =>
        LET r == call.roll
            d == call.target.defense_points
        IN /\ r \in ClawSwipeMin..ClawSwipeMax
           /\ ActiveEnemy.defense_points = 0
           /\ ActiveEnemy.health_points = call.target.health_points - Max(0, r - d)
           /\ r > d => ActiveEnemy.health_points = call.target.health_points - (r - d)
           /\ r <= d => ActiveEnemy.health_points = call.target.health_points
           /\ ActiveEnemy = [call.target EXCEPT !.defense_points = 0,
                                                !.health_points = ActiveEnemy.health_points]
           /\ ActivePlayer = CasterPaid("ClawSwipe")

\* a roll that does not exceed the target's defense: the defense is removed and
\* the health is kept
C24_Witness ==
    /\ SkillUsed("ClawSwipe")
    /\ call.roll <= call.target.defense_points
    /\ call.target.defense_points > 0
    /\ ActiveEnemy.defense_points = 0
    /\ ActiveEnemy.health_points = call.target.health_points

(* C25: CripplingStrike sets the target's speed_points to                  *)
(* max(0, previous speed_points - roll) for a roll in 5..15, so the        *)
(* target's speed_points is never negative right after the skill's effect, *)
(* and nothing but the target's speed_points is changed by the effect.     *)
C25_CripplingStrike ==
    SkillUsed("CripplingStrike") =>
        /\ call.roll \in CripplingStrikeMin..CripplingStrikeMax
        /\ ActiveEnemy.speed_points = Max(0, call.target.speed_points - call.roll)
        /\ ActiveEnemy.speed_points >= 0
        /\ ActiveEnemy = [call.target EXCEPT !.speed_points = ActiveEnemy.speed_points]
        /\ ActivePlayer = CasterPaid("CripplingStrike")

\* a roll above the target's speed: the speed is set to 0
C25_Witness ==
    /\ SkillUsed("CripplingStrike")
    /\ call.target.speed_points > 0
    /\ call.roll > call.target.speed_points
    /\ ActiveEnemy.speed_points = 0

(* C26: a basic attack whose target is an enemy combatant is never         *)
(* rejected and never reflected: an enemy has no active_effects attribute, *)
(* get_active_effect returns none for it, and every player basic attack on *)
(* an enemy is resolved by the critical / non-critical damage branch.      *)
C26_EnemyUnprotected ==
    (After("basic_attack") /\ call.by = "player") =>
        /\ IsEnemyCharacter(call.target)
        /\ "active_effects" \notin DOMAIN call.target
        /\ get_active_effect(call.target, "Invincible") = 0
        /\ get_active_effect(call.target, "ReflectiveShield") = 0
        /\ ret.type = "str"
        /\ ret.val \in {"critical", "blocked", "attacked"}
        /\ ret.val = "critical" <=> critical_hit(call.self, call.roll)
        /\ ActiveEnemy.health_points =
               call.target.health_points - total_damage(call.self, call.target, call.roll)
        /\ ActivePlayer.health_points = call.self.health_points

\* two player attacks in a row on the same enemy, both resolved by damage
C26_Witness ==
    /\ pc = "after_second"
    /\ call.op = "basic_attack"
    /\ call.by = "player"
    /\ IsEnemyCharacter(call.target)
    /\ ret = StrValue("attacked")
    /\ ActiveEnemy.health_points < call.target.health_points

\* the step completes a round
RoundEnds == pc /= "done" /\ pc' = "loop"

\* the entry the action of the last completed round put in the log (the defeat
\* check may have put "defeated" after it)
ActionEntry ==
    LET n == Len(battle_log)
    IN IF battle_log[n] = "defeated" THEN battle_log[n - 1] ELSE battle_log[n]

AttackEntries == {"rejected", "reflected", "critical", "blocked", "attacked"}
SwitchEntries == {"switched", "switch_defeated"}
SkillNames == DOMAIN skill_attributes

(* C27: in every completed round exactly one of the two active combatants  *)
(* acts, the turn character, and idle regeneration is applied exactly once *)
(* to the combatant that was active on the other side at the start of the  *)
(* round: to the player after every enemy action (attack, heal or defend), *)
(* to the enemy after every player action other than switch (a failed      *)
(* skill does not complete the round); the acting combatant receives no    *)
(* regeneration in its own round.                                          *)
C27_OneActs ==
    [][ RoundEnds =>
          LET p == active_player_character
              e == active_enemy_character
              player == player_characters[p]
              enemy == enemies[e]
              player2 == player_characters'[p]
              enemy2 == enemies'[e]
              entry == ActionEntry'
          IN /\ turn_character' \in {PlayerRef(p), EnemyRef(e)}
             /\ \/ KeepsOrder(battle_log, battle_log', 1)
                \/ /\ KeepsOrder(battle_log, battle_log', 2)
                   /\ battle_log'[Len(battle_log')] = "defeated"
             /\ turn_character' = EnemyRef(e) =>
                   /\ entry \in AttackEntries \cup {"healed", "defended"}
                   /\ player2.speed_points = player.speed_points + 1
                   /\ player2.magic_points = player.magic_points + 1
                   /\ player2.defense_points >= 0
                   /\ enemy2.speed_points =
                          enemy.speed_points - (IF entry = "defended" THEN 0 ELSE 1)
                   /\ UNCHANGED active_player_character
                         \/ battle_log'[Len(battle_log')] = "defeated"
             /\ turn_character' = PlayerRef(p) =>
                   /\ entry \in {"critical", "blocked", "attacked", "healed"}
                                   \cup SkillNames \cup SwitchEntries
                   /\ entry \in SwitchEntries =>
                         /\ enemy2.speed_points = enemy.speed_points
                         /\ enemy2.defense_points = enemy.defense_points
                         /\ player2.speed_points = player.speed_points
                         /\ player2.magic_points = player.magic_points
                   /\ entry \notin SwitchEntries =>
                         /\ enemy2.defense_points >= 0
                         /\ IF entry = "CripplingStrike"
                            THEN \E r \in CripplingStrikeMin..CripplingStrikeMax :
                                    enemy2.speed_points =
                                        Max(0, enemy.speed_points - r) + 1
                            ELSE enemy2.speed_points = enemy.speed_points + 1
                   /\ entry \in {"critical", "blocked", "attacked", "healed"} =>
                         /\ player2.speed_points = player.speed_points - 1
                         /\ player2.magic_points = player.magic_points
                   /\ entry \in SkillNames =>
                         /\ player2.speed_points =
                                player.speed_points - skill_attributes[entry].sp_cost
                         /\ player2.magic_points =
                                player.magic_points - skill_attributes[entry].mp_cost
      ]_vars

\* after a first round in which the enemy attacked, the player's character has
\* gained a speed point and a magic point and the enemy has paid a speed point
C27_Witness ==
    /\ round = 1
    /\ pc = "loop"
    /\ turn_character = EnemyRef(1)
    /\ battle_log = <<"attacked">>
    /\ player_characters[1].speed_points =
           job_class_attributes[player_characters[1].job_class].SP + 1
    /\ player_characters[1].magic_points =
           job_class_attributes[player_characters[1].job_class].MP + 1
    /\ enemies[1].speed_points = enemy_attributes[enemies[1].name].SP - 1

(* C28: whenever a round starts in a session that is not over, both active *)
(* combatants are alive (health_points > 0), so no combatant with          *)
(* health_points <= 0 ever executes an action; from the first round on,    *)
(* also in a session constructed from a roster carried over from an        *)
(* earlier combat whose first member is defeated while a later one lives.  *)
C28_ActivesAlive ==
    (pc \in {"loop", "prompt"} /\ ~is_game_over(GameManagerObject)) =>
        /\ is_alive(player_characters[active_player_character])
        /\ is_alive(enemies[active_enemy_character])

(* C29: in a session whose combatants all start with defense_points >= 0,  *)
(* every combatant of both rosters has defense_points >= 0 at the end of   *)
(* every round: a defense value driven below 0 by a basic attack is on the *)
(* idle side of that round and is clamped by idle regeneration before the  *)
(* round ends, so every action is chosen and resolved with no negative     *)
(* defense_points on either side.                                          *)
C29_DefenseNotNegative ==
    /\ \A i \in 1..Len(player_characters) : player_characters[i].defense_points >= 0
    /\ \A i \in 1..Len(enemies) : enemies[i].defense_points >= 0

\* a Healer hit three times by the enemy's basic attack, its own action in
\* between leaving its defense alone: the third hit drives its defense_points
\* below 0 and idle regeneration puts it at 0 before the round ends
C29_Witness ==
    /\ round = 4
    /\ pc = "loop"
    /\ battle_log = <<"attacked", "HealingPurr", "attacked", "critical", "defeated">>
    /\ turn_character = EnemyRef(active_enemy_character)
    /\ player_characters[1].job_class = "Healer"
    /\ player_characters[1].max_defense_points - 3 < 0
    /\ player_characters[1].defense_points = 0

\* the combatant is out of the combat: its health_points is 0 and it is not
\* the active combatant of its side, unless the game is over
OutOfCombat(gm, character) ==
    /\ Deref(gm, character).health_points = 0
    /\ \/ is_game_over(gm)
       \/ character /= (IF character.side = "player"
                        THEN PlayerRef(gm.active_player_character)
                        ELSE EnemyRef(gm.active_enemy_character))

Combatants ==
    { PlayerRef(i) : i \in 1..Len(player_characters) }
        \cup { EnemyRef(i) : i \in 1..Len(enemies) }

(* C30: defeat is permanent within a session: defeat handling leaves the   *)
(* defeated combatant at health_points 0 and not active while the game is  *)
(* not over, and a combatant in that condition stays in it for the rest of *)
(* the session, so it never acts again.                                    *)
C30_DefeatPermanent ==
    [][ /\ (RoundEnds /\ battle_log'[Len(battle_log')] = "defeated") =>
              \/ OutOfCombat(GameManagerObject', PlayerRef(active_player_character))
              \/ OutOfCombat(GameManagerObject', EnemyRef(active_enemy_character))
        /\ \A character \in Combatants :
              OutOfCombat(GameManagerObject, character)
                  => OutOfCombat(GameManagerObject', character)
      ]_vars

\* the first enemy was defeated in an earlier round and the combat goes on
\* against the second one
C30_Witness ==
    /\ pc = "loop"
    /\ ~is_game_over(GameManagerObject)
    /\ Len(enemies) = 2
    /\ enemies[1].health_points = 0
    /\ active_enemy_character = 2
    /\ \E i \in 1..(Len(battle_log) - 1) : battle_log[i] = "defeated"
    /\ battle_log[Len(battle_log)] /= "defeated"

(* C31: a round changes the stats (health, defense, speed, magic, luck,    *)
(* effects) of at most the two combatants that were active at the start of *)
(* the round: every benched roster member of either side is left as it is, *)
(* and max_health_points, max_defense_points and attack_points of every    *)
(* combatant never change during a session.                                *)
C31_Frame ==
    [][ /\ Len(player_characters') = Len(player_characters)
        /\ Len(enemies') = Len(enemies)
        /\ \A i \in 1..Len(player_characters) :
              /\ i /= active_player_character
                    => player_characters'[i] = player_characters[i]
              /\ player_characters'[i].max_health_points =
                     player_characters[i].max_health_points
              /\ player_characters'[i].max_defense_points =
                     player_characters[i].max_defense_points
              /\ player_characters'[i].attack_points = player_characters[i].attack_points
        /\ \A i \in 1..Len(enemies) :
              /\ i /= active_enemy_character => enemies'[i] = enemies[i]
              /\ enemies'[i].max_health_points = enemies[i].max_health_points
              /\ enemies'[i].max_defense_points = enemies[i].max_defense_points
              /\ enemies'[i].attack_points = enemies[i].attack_points
      ]_vars

\* after two rounds between the first members of two rosters, both changed,
\* the benched members are as they were constructed
C31_Witness ==
    /\ round = 2
    /\ pc = "loop"
    /\ active_player_character = 1
    /\ active_enemy_character = 1
    /\ Len(player_characters) >= 2
    /\ Len(enemies) = 2
    /\ player_characters[1] /= PlayerCharacter(player_characters[1].job_class)
    /\ enemies[1] /= EnemyCharacter(enemies[1].name)
    /\ \A i \in 2..Len(player_characters) :
          player_characters[i] = PlayerCharacter(player_characters[i].job_class)
    /\ enemies[2] = EnemyCharacter(enemies[2].name)

\* the number of effects of a kind in a list of effects
CountEffects(effects, kind) ==
    Cardinality({i \in 1..Len(effects) : effects[i].kind = kind})

(* C32: every effect in a combatant's active_effects has use_count exactly *)
(* 1 between basic attacks (an effect is removed in the attack that        *)
(* decrements it), each basic attack consumes at most one effect, and a    *)
(* combatant holding k Invincible effects has exactly its next k incoming  *)
(* basic attacks rejected: an attack is rejected exactly when the target   *)
(* holds an Invincible effect, and it takes exactly one of them.           *)
C32_EffectUses ==
    /\ \A i \in 1..Len(player_characters) :
          \A n \in 1..Len(player_characters[i].active_effects) :
              player_characters[i].active_effects[n].use_count = 1
    /\ \A i \in 1..Len(enemies) : "active_effects" \notin DOMAIN enemies[i]
    /\ (After("basic_attack") /\ call.by = "enemy") =>
          LET before == call.target.active_effects
              after == Target.active_effects
              k == CountEffects(before, "Invincible")
          IN /\ Len(after) \in {Len(before), Len(before) - 1}
             /\ ret = StrValue("rejected") <=> k >= 1
             /\ k >= 1 =>
                   /\ CountEffects(after, "Invincible") = k - 1
                   /\ CountEffects(after, "ReflectiveShield") =
                          CountEffects(before, "ReflectiveShield")
             /\ (k = 0 /\ before /= <<>>) =>
                   /\ ret = StrValue("reflected")
                   /\ Len(after) = Len(before) - 1
             /\ before = <<>> => after = <<>>

\* a target that held two Invincible effects has had two attacks rejected and
\* holds no effect any more
C32_Witness ==
    /\ pc = "after_second"
    /\ call.op = "basic_attack"
    /\ call.by = "enemy"
    /\ ret = StrValue("rejected")
    /\ call.target.active_effects = <<NewEffect("Invincible")>>
    /\ Target.active_effects = <<>>
    /\ battle_log = <<"rejected", "rejected">>

(* C33: when the target of a basic attack holds both an Invincible and a   *)
(* ReflectiveShield effect, Invincible takes priority: the attack is       *)
(* rejected, exactly one Invincible effect is consumed, the                *)
(* ReflectiveShield effect stays attached with its use_count unchanged,    *)
(* and the attacker loses only the 1 speed point of the attack (no         *)
(* reflected damage); the target's stats are not changed.                  *)
C33_InvinciblePriority ==
    (/\ After("basic_attack")
     /\ HoldsEffect(call.target, "Invincible")
     /\ HoldsEffect(call.target, "ReflectiveShield")) =>
        LET before == call.target.active_effects
            after == Target.active_effects
        IN /\ ret = StrValue("rejected")
           /\ CountEffects(after, "Invincible") = CountEffects(before, "Invincible") - 1
           /\ SelectSeq(after, LAMBDA effect : effect.kind = "ReflectiveShield")
                  = SelectSeq(before, LAMBDA effect : effect.kind = "ReflectiveShield")
           /\ Attacker = [call.self EXCEPT !.speed_points = call.self.speed_points - 1]
           /\ Target = [call.target EXCEPT !.active_effects = after]

\* the ReflectiveShield effect is the older of the two: the attack is rejected
\* all the same and the shield is what the target keeps
C33_Witness ==
    /\ After("basic_attack")
    /\ call.by = "enemy"
    /\ call.target.active_effects = <<NewEffect("ReflectiveShield"), NewEffect("Invincible")>>
    /\ ret = StrValue("rejected")
    /\ Target.active_effects = <<NewEffect("ReflectiveShield")>>
    /\ Attacker.health_points = call.self.health_points

\* the speed_points lead of the side's active combatant over the other side's
SpeedLead(gm, side) ==
    LET player == gm.player_characters[gm.active_player_character]
        enemy == gm.enemies[gm.active_enemy_character]
    IN IF side = "player"
       THEN player.speed_points - enemy.speed_points
       ELSE enemy.speed_points - player.speed_points

\* the step is a round in which the turn character made a basic attack,
\* healed or defended
PlainRound ==
    /\ RoundEnds
    /\ ActionEntry' \in AttackEntries \cup {"healed", "defended"}

\* what such a round takes from the lead of the side that acted
LeadLoss == IF ActionEntry' = "defended" THEN 1 ELSE 2

(* C34: in a round in which the turn character makes a basic attack, heals *)
(* or (the enemy) defends, the speed_points lead of its side's active      *)
(* combatant over the other side's active combatant shrinks by exactly 2   *)
(* for an attack or a heal and by exactly 1 for a defend, so the other     *)
(* side gets the higher speed_points and the turn after finitely many such *)
(* rounds.                                                                 *)
C34_SpeedLead ==
    [][ PlainRound =>
            LET side == turn_character'.side
                after == [player_characters |-> player_characters',
                          enemies |-> enemies',
                          active_player_character |-> active_player_character',
                          active_enemy_character |-> active_enemy_character']
            IN SpeedLead(after, side) = SpeedLead(GameManagerObject, side) - LeadLoss
      ]_vars

\* the lead of the side between the two combatants that were active when the
\* round started, as the round leaves them
PairLeadAfter(side) ==
    LET player == player_characters'[active_player_character]
        enemy == enemies'[active_enemy_character]
    IN IF side = "player"
       THEN player.speed_points - enemy.speed_points
       ELSE enemy.speed_points - player.speed_points

\* C34 as amended: between the two combatants that were active when the round
\* started, the lead of the one that attacked, healed or defended shrinks by
\* exactly 2 for an attack or a heal and by exactly 1 for a defend; the lead
\* between the active combatants shrinks by that much when the round replaces
\* neither of them; and a round that starts with unequal speed_points of the
\* active combatants is the turn of the one with more.
C34_PairSpeedLead ==
    [][ /\ PlainRound =>
              LET side == turn_character'.side
                  after == [player_characters |-> player_characters',
                            enemies |-> enemies',
                            active_player_character |-> active_player_character',
                            active_enemy_character |-> active_enemy_character']
              IN /\ PairLeadAfter(side) = SpeedLead(GameManagerObject, side) - LeadLoss
                 /\ UNCHANGED <<active_player_character, active_enemy_character>> =>
                       SpeedLead(after, side) = SpeedLead(GameManagerObject, side) - LeadLoss
        /\ (pc = "loop" /\ pc' /= "done" /\ SpeedLead(GameManagerObject, "player") /= 0) =>
              turn_character' = IF SpeedLead(GameManagerObject, "player") > 0
                                THEN PlayerRef(active_player_character)
                                ELSE EnemyRef(active_enemy_character)
      ]_vars

\* the enemy, its defense removed by PurrfectStrike, had the turn by one speed
\* point and defended: the two are level
C34_Witness ==
    /\ round = 2
    /\ pc = "loop"
    /\ battle_log = <<"PurrfectStrike", "defended">>
    /\ turn_character = EnemyRef(1)
    /\ active_player_character = 1
    /\ enemies[1].speed_points = enemy_attributes[enemies[1].name].SP + 1
    /\ player_characters[1].speed_points = enemies[1].speed_points

C36_PointsNotNegative ==
    [][ /\ \A skill \in DOMAIN skill_attributes :
              skill_attributes[skill].sp_cost >= 0 /\ skill_attributes[skill].mp_cost >= 0
        /\ \A i \in 1..Len(player_characters) :
              /\ player_characters[i].magic_points >= 0
              /\ player_characters'[i].magic_points >= 0
              /\ (/\ player_characters[i].speed_points >= 0
                  /\ player_characters'[i].speed_points < 0) =>
                     /\ call'.op \in {"basic_attack", "heal"}
                     /\ call'.by = "player"
                     /\ i = active_player_character
        /\ \A i \in 1..Len(enemies) :
              (/\ enemies[i].speed_points >= 0
               /\ enemies'[i].speed_points < 0) =>
                     /\ call'.op \in {"basic_attack", "heal", "select_action"}
                     /\ call'.by = "enemy"
                     /\ ret'.val /= "defended"
                     /\ i = active_enemy_character
        /\ (pc = "test" /\ call'.op = "use_skill"
                /\ player_characters'[active_player_character] /= ActivePlayer) =>
              /\ player_characters'[active_player_character].speed_points >= 0
              /\ player_characters'[active_player_character].speed_points
                     < ActivePlayer.speed_points
                   \/ player_characters'[active_player_character].magic_points
                     < ActivePlayer.magic_points
      ]_vars

\* a caster that had exactly the speed_points and the magic_points of the
\* skill's costs has none of either left
C36_Witness ==
    /\ ValidSkillCall
    /\ ret.type = "str"
    /\ call.self.speed_points > 0
    /\ call.self.magic_points > 0
    /\ ActivePlayer.speed_points = 0
    /\ ActivePlayer.magic_points = 0

\* the combatants a step brings from health_points > 0 to health_points <= 0
BroughtDown ==
    { i \in 1..Len(player_characters) :
        is_alive(player_characters[i]) /\ ~is_alive(player_characters'[i]) }
    \cup
    { Len(player_characters) + i : i \in { j \in 1..Len(enemies) :
        is_alive(enemies[j]) /\ ~is_alive(enemies'[j]) } }

(* C37: in a session that starts with a living member on each side, the    *)
(* two rosters are never both entirely defeated: a round brings at most    *)
(* one combatant to health_points <= 0, so when the game is over exactly   *)
(* one side has a living member and player_won is the negation of "all     *)
(* player characters are defeated".                                        *)
C37_OneSideLeft ==
    [][ /\ ~(AllDefeated(player_characters) /\ AllDefeated(enemies))
        /\ ~(AllDefeated(player_characters') /\ AllDefeated(enemies'))
        /\ Cardinality(BroughtDown) <= 1
        /\ (pc = "loop" /\ pc' = "done") =>
              /\ AllDefeated(player_characters) /= AllDefeated(enemies)
              /\ ret' = BoolValue(~AllDefeated(player_characters))
              /\ ret' = BoolValue(player_won(GameManagerObject))
      ]_vars

\* a lost combat: every player character is defeated, an enemy lives, and
\* start_combat has returned False
C37_Witness ==
    /\ pc = "done"
    /\ ret = BoolValue(FALSE)
    /\ round >= 1
    /\ Len(player_characters) >= 2
    /\ AllDefeated(player_characters)
    /\ ~AllDefeated(enemies)

\* a scene of run_scenes has returned
SceneReturned == call.op \in {"scene_one", "scene_two"}

(* C38: a scene reports a truthy game_over exactly when the player lost a   *)
(* combat in it: after scene_one and after every path of scene_two the      *)
(* returned value is truthy if and only if a combat was fought and          *)
(* start_combat returned False, and run_scenes goes to the game-over screen *)
(* and the reset exactly then.                                              *)
C38_GameOverOnLoss ==
    SceneReturned =>
        /\ Truthy(ret) <=> (call.fought /\ ~call.player_won)
        /\ pc = "game_over" <=> (call.fought /\ ~call.player_won)

(* C39: at the start menu, where every play-through begins, the roster      *)
(* selected_characters is empty, and the roster a combat is fought with has *)
(* 1 to 3 members of distinct job classes.                                  *)
C39_EmptyRoster ==
    /\ pc = "start_menu" => player_characters = <<>>
    /\ pc \in {"scene_one", "scene_two"} =>
          /\ Len(player_characters) \in 1..MaxPlayable
          /\ \A i, j \in 1..Len(player_characters) :
                 player_characters[i].job_class = player_characters[j].job_class
                     => i = j


====
